---------------------------- MODULE Spec2Model ----------------------------
(***************************************************************************)
(* A model of the butterfish shell multiplexer (src/butterfish/shell.go):  *)
(* the history store and the chat assembler (a token-budget packer), the   *)
(* parent-input state machine, the select loop of Mux and the completion   *)
(* driver.                                                                 *)
(*                                                                         *)
(* Bytes are their integer values, strings are sequences of bytes.         *)
(***************************************************************************)
EXTENDS Integers, Sequences, FiniteSets, TLC

(***************************************************************************)
(* Bytes the code names.                                                   *)
(***************************************************************************)
CtrlC == 3
Backspace == 8
Tab == 9
FormFeed == 12
CR == 13
ESC == 27
LBracket == 91
DEL == 127

Min(a, b) == IF a < b THEN a ELSE b
Max(a, b) == IF a > b THEN a ELSE b

RECURSIVE Flatten(_)
Flatten(ss) == IF ss = <<>> THEN <<>> ELSE Head(ss) \o Flatten(Tail(ss))

RECURSIVE SumSeq(_)
SumSeq(ns) == IF ns = <<>> THEN 0 ELSE Head(ns) + SumSeq(Tail(ns))

Contains(s, b) == \E i \in 1..Len(s) : s[i] = b

\* bytes.Index(data, {b}) as a 1-based position (0 when absent)
IndexOf(s, b) ==
    IF Contains(s, b) THEN CHOOSE i \in 1..Len(s) : s[i] = b /\ \A j \in 1..(i-1) : s[j] # b
    ELSE 0

\* data[from:] and data[:to] of Go, on 1-based sequences
DropFirst(s, n) == SubSeq(s, n + 1, Len(s))
TakeFirst(s, n) == SubSeq(s, 1, n)

(***************************************************************************)
(* ShellBuffer: an editable line.  buf is a sequence of cells, a cell being*)
(* <<b>> for one byte or a whole CSI sequence <<ESC, '[', ..., final>>     *)
(* (zero display width); cursor is an index into the cells, in 0..Len.     *)
(***************************************************************************)
NewShellBuffer == [buf |-> <<>>, cursor |-> 0]

IsParamByte(b) == b >= 48 /\ b <= 63
IsDigit(b) == b >= 48 /\ b <= 57
IsFinalByte(b) == b >= 64 /\ b <= 126

\* the position of the first byte at or after i that is not a CSI parameter byte
RECURSIVE SkipParams(_, _)
SkipParams(data, i) ==
    IF i <= Len(data) /\ IsParamByte(data[i]) THEN SkipParams(data, i + 1) ELSE i

\* the decimal value of the leading digits of s, given the value so far
RECURSIVE DigitsValue(_, _)
DigitsValue(s, acc) ==
    IF s # <<>> /\ IsDigit(Head(s)) THEN DigitsValue(Tail(s), acc * 10 + (Head(s) - 48)) ELSE acc

\* the numeric parameter of a cursor move, 1 when there is none
MoveCount(params) ==
    IF params # <<>> /\ IsDigit(Head(params)) THEN DigitsValue(params, 0) ELSE 1

\* mutant: a written byte goes to the end of the line, wherever the cursor is
InsertCell_AtEnd(sb, cell) ==
    [buf |-> Append(sb.buf, cell), cursor |-> sb.cursor + 1]

InsertCell(sb, cell) ==
    [buf |-> TakeFirst(sb.buf, sb.cursor) \o <<cell>> \o DropFirst(sb.buf, sb.cursor),
     cursor |-> sb.cursor + 1]

\* mutant: a backspace moves the cursor left and deletes nothing
DeleteLeft_MovesOnly(sb) ==
    IF sb.cursor > 0 THEN [sb EXCEPT !.cursor = sb.cursor - 1] ELSE sb

DeleteLeft(sb) ==
    IF sb.cursor > 0
    THEN [buf |-> TakeFirst(sb.buf, sb.cursor - 1) \o DropFirst(sb.buf, sb.cursor),
          cursor |-> sb.cursor - 1]
    ELSE sb

\* ShellBuffer.Write: feed the bytes of data from position i on
RECURSIVE WriteFrom(_, _, _)
WriteFrom(sb, data, i) ==
    IF i > Len(data) THEN sb
    ELSE LET b == data[i] IN
         IF b = ESC /\ i + 1 <= Len(data) /\ data[i + 1] = LBracket
         THEN LET j == SkipParams(data, i + 2)
                  params == SubSeq(data, i + 2, j - 1)
              IN IF j > Len(data)
                 THEN \* an unfinished sequence: kept literally
                      WriteFrom(InsertCell(sb, SubSeq(data, i, Len(data))), data, j)
                 ELSE IF data[j] = 68      \* D: cursor left
                 THEN WriteFrom([sb EXCEPT !.cursor = Max(0, sb.cursor - MoveCount(params))],
                                data, j + 1)
                 ELSE IF data[j] = 67      \* C: cursor right
                 THEN WriteFrom([sb EXCEPT !.cursor =
                                    Min(Len(sb.buf), sb.cursor + MoveCount(params))],
                                data, j + 1)
                 ELSE IF data[j] \in {65, 66}   \* A, B: up and down leave the line alone
                 THEN WriteFrom(sb, data, j + 1)
                 ELSE WriteFrom(InsertCell(sb, SubSeq(data, i, j)), data, j + 1)
         ELSE IF b \in {Backspace, DEL} THEN WriteFrom(DeleteLeft(sb), data, i + 1)
         ELSE IF b = CR THEN WriteFrom(sb, data, i + 1)
         ELSE WriteFrom(InsertCell(sb, <<b>>), data, i + 1)

BufWrite(sb, data) == WriteFrom(sb, data, 1)

BufClear(sb) == NewShellBuffer

\* ShellBuffer.Size: the bytes of the content, CSI sequences excluded
BufSize(sb) == Cardinality({i \in 1..Len(sb.buf) : Len(sb.buf[i]) = 1})

\* ShellBuffer.String: the content, CSI sequences included
BufString(sb) == Flatten(sb.buf)

(***************************************************************************)
(* incompleteAnsiSequence: the slice ends inside an unfinished CSI         *)
(* sequence, i.e. its last ESC is the last byte, or is followed by '[' and *)
(* parameter bytes only.                                                   *)
(***************************************************************************)
\* mutant: only a trailing ESC counts as unfinished
incompleteAnsiSequence_EscOnly(data) ==
    Len(data) > 0 /\ data[Len(data)] = ESC

incompleteAnsiSequence(data) ==
    /\ Contains(data, ESC)
    /\ LET e == CHOOSE i \in 1..Len(data) :
                    data[i] = ESC /\ \A j \in (i+1)..Len(data) : data[j] # ESC
       IN \/ e = Len(data)
          \/ /\ data[e + 1] = LBracket
             /\ \A j \in (e+2)..Len(data) : IsParamByte(data[j])

(***************************************************************************)
(* The tokenizer (tiktoken, an external library) as a small byte-pair      *)
(* encoder: scanning from the left, the pair "ab" merges into one token    *)
(* and every other byte is a token of its own.  A role string is one token *)
(* of the vocabulary.                                                      *)
(***************************************************************************)
RECURSIVE Encode(_)
Encode(s) ==
    IF s = <<>> THEN <<>>
    ELSE IF Len(s) >= 2 /\ s[1] = 97 /\ s[2] = 98 THEN <<SubSeq(s, 1, 2)>> \o Encode(DropFirst(s, 2))
    ELSE <<SubSeq(s, 1, 1)>> \o Encode(Tail(s))

Decode(tokens) == Flatten(tokens)

EncodeRole(role) == <<role>>

\* mutant: the tokens are counted and cut, the string is returned whole
countAndTruncate_KeepsData(data, maxTokens) ==
    LET tokens == Encode(data) IN
    IF Len(tokens) >= maxTokens
    THEN [n |-> maxTokens, data |-> data, truncated |-> TRUE]
    ELSE [n |-> Len(tokens), data |-> data, truncated |-> FALSE]

\* countAndTruncate: (number of tokens, truncated string, truncated?)
countAndTruncate(data, maxTokens) ==
    LET tokens == Encode(data) IN
    IF Len(tokens) >= maxTokens
    THEN [n |-> maxTokens, data |-> Decode(TakeFirst(tokens, maxTokens)), truncated |-> TRUE]
    ELSE [n |-> Len(tokens), data |-> data, truncated |-> FALSE]

\* sanitizeTTYString: printable bytes and whitespace only
IsPrintable(b) == (b >= 32 /\ b # DEL) \/ b \in {Tab, 10, CR}
sanitizeTTYString(s) == SelectSeq(s, IsPrintable)

\* NumTokensPerMessageForModel: the per-message overhead of the chat format
TokensPerMessage == 3

\* the framing overhead of a chat request
BaselineTokens == 3

(***************************************************************************)
(* ShellHistory: a sequence of blocks, oldest first.  A block is its kind, *)
(* its content (a ShellBuffer) and the cached tokenization of the content  *)
(* for the one encoder of the session (ok = FALSE: no entry).              *)
(***************************************************************************)
historyTypePrompt == "Prompt"
historyTypeShellInput == "ShellInput"
historyTypeShellOutput == "ShellOutput"
historyTypeLLMOutput == "LLMOutput"
HistoryTypes ==
    {historyTypePrompt, historyTypeShellInput, historyTypeShellOutput, historyTypeLLMOutput}

NoTokenization == [ok |-> FALSE, InputLength |-> 0, NumTokens |-> 0, Data |-> <<>>]

NewShellHistory == <<>>

\* ShellHistory.add
HistoryAdd(h, historyType, block) ==
    Append(h, [Type |-> historyType,
               Content |-> BufWrite(NewShellBuffer, block),
               Tokenization |-> NoTokenization])

\* mutant: every Append adds a block
HistoryAppend_AlwaysAdds(h, historyType, data) ==
    IF Len(data) = 0 THEN h ELSE HistoryAdd(h, historyType, data)

\* ShellHistory.Append
HistoryAppend(h, historyType, data) ==
    IF Len(data) = 0 THEN h
    ELSE IF Len(h) > 0 /\ h[Len(h)].Type = historyType
    THEN [h EXCEPT ![Len(h)].Content = BufWrite(@, data)]
    ELSE HistoryAdd(h, historyType, data)

\* HistoryBuffer.GetTokenization: the cached entry, valid for this length only
GetTokenization(block, length) ==
    IF block.Tokenization.ok /\ block.Tokenization.InputLength = length
    THEN [ok |-> TRUE, Data |-> block.Tokenization.Data, NumTokens |-> block.Tokenization.NumTokens]
    ELSE [ok |-> FALSE, Data |-> <<>>, NumTokens |-> 0]

\* HistoryBuffer.SetTokenization
SetTokenization(block, inputLength, numTokens, data) ==
    [block EXCEPT !.Tokenization =
        [ok |-> TRUE, InputLength |-> inputLength, NumTokens |-> numTokens, Data |-> data]]

ShellHistoryTypeToRole(historyType) ==
    IF historyType = historyTypeLLMOutput THEN "assistant" ELSE "user"

(***************************************************************************)
(* getHistoryBlocksByTokens: the callback of IterateBlocks applied to      *)
(* block i, then to the older blocks while it answers "continue".  acc is  *)
(* the walk so far: the history (its caches are filled on the way), the    *)
(* blocks picked (oldest first) and the tokens they use.                   *)
(***************************************************************************)
\* the tokenization of one block: the cache entry, or computed on a miss
BlockTokenization(block, maxHistoryBlockTokens) ==
    LET contentLen == BufSize(block.Content)
        cached == GetTokenization(block, contentLen)
        contentStr == BufString(block.Content)
        ceiling == maxHistoryBlockTokens * 4
        capped == IF contentLen > ceiling THEN TakeFirst(contentStr, ceiling) ELSE contentStr
        ct == countAndTruncate(sanitizeTTYString(capped), maxHistoryBlockTokens)
    IN IF cached.ok
       THEN [miss |-> FALSE, content |-> cached.Data, contentTokens |-> cached.NumTokens]
       ELSE [miss |-> TRUE, content |-> ct.data, contentTokens |-> ct.n]

\* mutant: the shell-output filter is missing
SkipsBlock_NoFilter(block) == BufSize(block.Content) = 0

\* whether the walk skips the block: shell output is never sent, nor an empty block
SkipsBlock(block) ==
    block.Type = historyTypeShellOutput \/ BufSize(block.Content) = 0

\* mutant: the budget is compared before the message is counted
OverBudget_BeforeAdding(usedTokens, msgTokens, maxTokens) == usedTokens > maxTokens

\* whether a message of msgTokens tokens ends the walk
OverBudget(usedTokens, msgTokens, maxTokens) == usedTokens + msgTokens > maxTokens

RECURSIVE IterateBlocks(_, _, _, _, _)
RECURSIVE AddBlock(_, _, _, _, _, _, _)

\* mutant: a block that does not fit is passed over and the walk goes on
AddBlock_PassesOver(acc, i, t, msgTokens, maxHistoryBlockTokens, maxTokens, tokensPerMessage) ==
    IF OverBudget(acc.usedTokens, msgTokens, maxTokens)
    THEN IterateBlocks(acc, i - 1, maxHistoryBlockTokens, maxTokens, tokensPerMessage)
    ELSE IterateBlocks(
           [history |-> acc.history,
            blocks |-> <<[Type |-> acc.history[i].Type, Content |-> t.content]>> \o acc.blocks,
            usedTokens |-> acc.usedTokens + msgTokens],
           i - 1, maxHistoryBlockTokens, maxTokens, tokensPerMessage)

\* the callback from the budget test on: block i costs msgTokens, its content is t.content
AddBlock(acc, i, t, msgTokens, maxHistoryBlockTokens, maxTokens, tokensPerMessage) ==
    IF OverBudget(acc.usedTokens, msgTokens, maxTokens)
    THEN acc
    ELSE IterateBlocks(
           [history |-> acc.history,
            blocks |-> <<[Type |-> acc.history[i].Type, Content |-> t.content]>> \o acc.blocks,
            usedTokens |-> acc.usedTokens + msgTokens],
           i - 1, maxHistoryBlockTokens, maxTokens, tokensPerMessage)

\* the callback from the cache lookup on: t is the tokenization of block i
CountBlock(acc, i, t, maxHistoryBlockTokens, maxTokens, tokensPerMessage) ==
    AddBlock([acc EXCEPT !.history =
                 IF t.miss
                 THEN [@ EXCEPT ![i] = SetTokenization(@, BufSize(@.Content),
                                                       t.contentTokens, t.content)]
                 ELSE @],
             i, t,
             tokensPerMessage + Len(EncodeRole(ShellHistoryTypeToRole(acc.history[i].Type)))
                + t.contentTokens,
             maxHistoryBlockTokens, maxTokens, tokensPerMessage)

IterateBlocks(acc, i, maxHistoryBlockTokens, maxTokens, tokensPerMessage) ==
    IF i = 0 THEN acc
    ELSE IF SkipsBlock(acc.history[i])
    THEN IterateBlocks(acc, i - 1, maxHistoryBlockTokens, maxTokens, tokensPerMessage)
    ELSE CountBlock(acc, i, BlockTokenization(acc.history[i], maxHistoryBlockTokens),
                    maxHistoryBlockTokens, maxTokens, tokensPerMessage)

getHistoryBlocksByTokens(history, maxHistoryBlockTokens, maxTokens, tokensPerMessage) ==
    IterateBlocks([history |-> history, blocks |-> <<>>, usedTokens |-> 0],
                  Len(history), maxHistoryBlockTokens, maxTokens, tokensPerMessage)

(***************************************************************************)
(* assembleChat: err, or the possibly truncated prompt and the history     *)
(* blocks of the request; history is the store after the walk.             *)
(***************************************************************************)
\* return prompt, blocks, nil: h is what getHistoryBlocksByTokens made
AssembledChat(p, h) ==
    [err |-> FALSE, prompt |-> p.data, blocks |-> h.blocks, history |-> h.history]

\* mutant: the system message is never too long
AssembleHistory_NoLimit(p, usedTokens, history, maxHistoryBlockTokens, maxTokens) ==
    AssembledChat(p, getHistoryBlocksByTokens(history, maxHistoryBlockTokens,
                                              maxTokens - usedTokens, TokensPerMessage))

\* assembleChat once the prompt p and the system message are counted in usedTokens
AssembleHistory(p, usedTokens, history, maxHistoryBlockTokens, maxTokens) ==
    IF usedTokens > maxTokens
    THEN [err |-> TRUE, prompt |-> <<>>, blocks |-> <<>>, history |-> history]
    ELSE AssembledChat(p, getHistoryBlocksByTokens(history, maxHistoryBlockTokens,
                                                   maxTokens - usedTokens, TokensPerMessage))

\* assembleChat once the prompt is counted and truncated to p
AssembleSystemMessage(p, sysMsg, history, maxHistoryBlockTokens, maxTokens) ==
    AssembleHistory(p, BaselineTokens + p.n + Len(Encode(sysMsg)) + TokensPerMessage,
                    history, maxHistoryBlockTokens, maxTokens)

assembleChat(prompt, sysMsg, history, maxPromptTokens, maxHistoryBlockTokens, maxTokens) ==
    AssembleSystemMessage(countAndTruncate(prompt, maxPromptTokens), sysMsg, history,
                          maxHistoryBlockTokens, maxTokens)

(***************************************************************************)
(* The multiplexer.  Its handlers are operators on a record w of           *)
(* everything a handler reads or writes: the fields of ShellState, the     *)
(* writes to the child's stdin (ChildIn) and to the parent terminal        *)
(* (ParentOut: the writes of child output, of the response and of errors;  *)
(* echo and colour writes are not recorded), and calls, one entry per      *)
(* SendPrompt call, which holds the CompletionRoutine it started.          *)
(***************************************************************************)
stateNormal == "Normal"
stateShell == "Shell"
statePrompting == "Prompting"
statePromptResponse == "PromptResponse"

\* unicode.IsUpper(rune(b)) of a byte: A-Z, and the Latin-1 capitals U+00C0-U+00DE but U+00D7
IsUpper(b) == (b >= 65 /\ b <= 90) \/ (b >= 192 /\ b <= 222 /\ b # 215)

\* the configuration of a session, scaled to the model's strings
NumTokensForModel == 24
ShellMaxPromptTokens == 20
PromptMaxTokens == Min(NumTokensForModel, ShellMaxPromptTokens)
ShellMaxResponseTokens == 1
AssembleMaxPromptTokens == 4

\* the texts a response ends with
TokenText == <<114>>
LLMErrorText == <<101>>
CanceledText == <<99>>
ErrorText == <<69>>

\* a system message that fits the budget, and one that fits it only with a prompt of
\* one token
SysMsgShort == <<97>>
SysMsgLong ==
    [i \in 1..(PromptMaxTokens - ShellMaxResponseTokens - BaselineTokens - TokensPerMessage - 1)
        |-> 97]
SysMsgMissing == <<>>

\* mutant: nothing is set aside for the answer
AssembleChat_NoReserve(w, prompt, sysMsg, reserveForAnswer) ==
    assembleChat(prompt, sysMsg, w.History, AssembleMaxPromptTokens,
                 w.ShellMaxHistoryBlockTokens, PromptMaxTokens)

\* ShellState.AssembleChat
AssembleChat(w, prompt, sysMsg, reserveForAnswer) ==
    assembleChat(prompt, sysMsg, w.History, AssembleMaxPromptTokens,
                 w.ShellMaxHistoryBlockTokens, PromptMaxTokens - reserveForAnswer)

\* ShellState.PrintError: one more error on PrintErrorChan.  The channel buffers
\* PrintErrorChanCap errors; an error beyond them is that of a sender parked in the send,
\* who goes no further until a receive makes room.
PrintErrorChanCap == 8
Parked(w) == Len(w.PrintErrorChan) > PrintErrorChanCap

PrintError(w, err) == [w EXCEPT !.PrintErrorChan = Append(@, err)]

\* the CompletionRoutine goroutine that go CompletionRoutine(...) starts
NewRoutine(request) ==
    [pc |-> "streaming", cancelled |-> FALSE, tokens |-> 0, completion |-> <<>>,
     request |-> request]

\* a SendPrompt call that started no routine
NoRoutine ==
    [pc |-> "failed", cancelled |-> FALSE, tokens |-> 0, completion |-> <<>>,
     request |-> [Prompt |-> <<>>, HistoryBlocks |-> <<>>, SystemMessage |-> <<>>, MaxTokens |-> 0]]

\* mutant: a failed request construction is not reported
SendPromptFails_Silent(w, err) == [w EXCEPT !.calls = Append(@, NoRoutine)]

\* SendPrompt's error paths: the error is queued and no routine is started
SendPromptFails(w, err) == PrintError([w EXCEPT !.calls = Append(@, NoRoutine)], err)

\* SendPrompt from the result a of AssembleChat on
SendRequest(w, a) ==
    IF a.err THEN SendPromptFails(w, ErrorText)
    ELSE [w EXCEPT !.History = HistoryAppend(a.history, historyTypePrompt, BufString(w.Prompt)),
                   !.calls = Append(@, NewRoutine(
                                [Prompt |-> a.prompt, HistoryBlocks |-> a.blocks,
                                 SystemMessage |-> w.promptLibrary,
                                 MaxTokens |-> ShellMaxResponseTokens])),
                   !.Prompt = BufClear(@)]

\* SendPrompt after setState and the new cancel func
SendPromptIn(w) ==
    IF w.promptLibrary = SysMsgMissing THEN SendPromptFails(w, ErrorText)
    ELSE SendRequest(w, AssembleChat(w, BufString(w.Prompt), w.promptLibrary,
                                     ShellMaxResponseTokens))

\* ShellState.SendPrompt
SendPrompt(w) ==
    SendPromptIn([w EXCEPT !.State = statePromptResponse,
                           !.PromptResponseCancel = Len(w.calls) + 1])

\* context.CancelFunc of the request of call id: the routine, if any, is told to stop
Cancel(w, id) ==
    IF id = 0 THEN w ELSE [w EXCEPT !.calls[id].cancelled = TRUE, !.PromptResponseCancel = 0]

ChildInWrite(w, bytes) == [w EXCEPT !.ChildIn = @ \o bytes]

(***************************************************************************)
(* ShellState.ParentInput, one operator per state: the handler's effect    *)
(* and the leftover it returns.                                            *)
(***************************************************************************)
\* Ctrl-C at either end of the input while the response streams
CancelResponse(w, data) ==
    [w |-> [Cancel(w, w.PromptResponseCancel) EXCEPT !.State = stateNormal, !.nCancel = @ + 1],
     leftover |-> IF data[1] = CtrlC THEN Tail(data) ELSE TakeFirst(data, Len(data) - 1)]

\* mutant: any key ends the wait for the response
ParentInputPromptResponse_AnyKey(w, data) ==
    IF data[1] = CtrlC \/ data[Len(data)] = CtrlC
    THEN CancelResponse(w, data)
    ELSE [w |-> [w EXCEPT !.State = stateNormal], leftover |-> Tail(data)]

ParentInputPromptResponse(w, data) ==
    IF data[1] = CtrlC \/ data[Len(data)] = CtrlC
    THEN CancelResponse(w, data)
    ELSE [w |-> w, leftover |-> data]

\* mutant: a regular character always starts a command
ParentInputNormal_AlwaysShell(w, data) ==
    IF data[1] = CtrlC
    THEN [w |-> ChildInWrite([w EXCEPT !.Command = BufClear(@), !.Prompt = BufClear(@)],
                             <<data[1]>>),
          leftover |-> Tail(data)]
    ELSE IF data[1] = FormFeed
    THEN [w |-> ChildInWrite([w EXCEPT !.Command = BufClear(@), !.Prompt = BufClear(@)],
                             <<CR>>),
          leftover |-> Tail(data)]
    ELSE IF IsUpper(data[1])
    THEN \* GetCursorPosition: the terminal answers the request
         [w |-> [w EXCEPT !.State = statePrompting,
                          !.Prompt = BufWrite(BufClear(@), data)],
          leftover |-> Tail(data)]
    ELSE IF data[1] = Tab
    THEN [w |-> ChildInWrite(w, <<data[1]>>), leftover |-> Tail(data)]
    ELSE IF data[1] = CR
    THEN [w |-> ChildInWrite(w, data), leftover |-> Tail(data)]
    ELSE LET cmd == BufWrite(NewShellBuffer, data) IN
         [w |-> ChildInWrite([w EXCEPT !.Command = cmd,
                                       !.State = stateShell],
                             data),
          leftover |-> <<>>]

ParentInputNormal(w, data) ==
    IF data[1] = CtrlC
    THEN [w |-> ChildInWrite([w EXCEPT !.Command = BufClear(@), !.Prompt = BufClear(@)],
                             <<data[1]>>),
          leftover |-> Tail(data)]
    ELSE IF data[1] = FormFeed
    THEN [w |-> ChildInWrite([w EXCEPT !.Command = BufClear(@), !.Prompt = BufClear(@)],
                             <<CR>>),
          leftover |-> Tail(data)]
    ELSE IF IsUpper(data[1])
    THEN \* GetCursorPosition: the terminal answers the request
         [w |-> [w EXCEPT !.State = statePrompting,
                          !.Prompt = BufWrite(BufClear(@), data)],
          leftover |-> Tail(data)]
    ELSE IF data[1] = Tab
    THEN [w |-> ChildInWrite(w, <<data[1]>>), leftover |-> Tail(data)]
    ELSE IF data[1] = CR
    THEN [w |-> ChildInWrite(w, data), leftover |-> Tail(data)]
    ELSE LET cmd == BufWrite(NewShellBuffer, data) IN
         [w |-> ChildInWrite([w EXCEPT !.Command = cmd,
                                       !.State = IF BufSize(cmd) > 0 THEN stateShell ELSE @],
                             data),
          leftover |-> <<>>]

ParentInputPrompting(w, data) ==
    IF Contains(data, CR)
    THEN LET index == IndexOf(data, CR)
             toAdd == TakeFirst(data, index - 1)
         IN [w |-> SendPrompt([w EXCEPT !.Prompt = BufWrite(@, toAdd)]),
             leftover |-> DropFirst(data, index)]
    ELSE IF data[1] = Tab
    THEN [w |-> w, leftover |-> Tail(data)]
    ELSE IF data[1] = CtrlC
    THEN [w |-> [Cancel(w, w.PromptResponseCancel) EXCEPT !.Prompt = BufClear(@),
                                                          !.State = stateNormal],
          leftover |-> Tail(data)]
    ELSE IF data[1] = FormFeed
    THEN [w |-> w, leftover |-> Tail(data)]
    ELSE LET prompt == BufWrite(w.Prompt, data) IN
         [w |-> [w EXCEPT !.Prompt = prompt,
                          !.State = IF BufSize(prompt) = 0 THEN stateNormal ELSE @],
          leftover |-> <<>>]

ParentInputShell(w, data) ==
    IF Contains(data, CR)
    THEN LET index == IndexOf(data, CR) IN
         [w |-> [ChildInWrite(w, TakeFirst(data, index)) EXCEPT
                    !.State = stateNormal,
                    !.History = HistoryAppend(@, historyTypeShellInput, BufString(w.Command)),
                    !.Command = NewShellBuffer],
          leftover |-> DropFirst(data, index)]
    ELSE IF data[1] = CtrlC
    THEN [w |-> ChildInWrite([w EXCEPT !.Command = BufClear(@), !.State = stateNormal],
                             <<data[1]>>),
          leftover |-> Tail(data)]
    ELSE IF data[1] = Tab
    THEN [w |-> ChildInWrite(w, <<data[1]>>), leftover |-> Tail(data)]
    ELSE LET cmd == BufWrite(w.Command, data) IN
         [w |-> ChildInWrite([w EXCEPT !.Command = cmd,
                                       !.State = IF BufSize(cmd) = 0 THEN stateNormal ELSE @],
                             data),
          leftover |-> <<>>]

ParentInput(w, data) ==
    CASE w.State = statePromptResponse -> ParentInputPromptResponse(w, data)
      [] w.State = stateNormal -> ParentInputNormal(w, data)
      [] w.State = statePrompting -> ParentInputPrompting(w, data)
      [] w.State = stateShell -> ParentInputShell(w, data)

\* the for loop of ParentInputLoop: one call of ParentInput, then what its
\* result r asks for
RECURSIVE ParentInputDispatch(_, _)
RECURSIVE ParentInputRest(_, _)
ParentInputRest(r, data) ==
    IF Parked(r.w) THEN r.w     \* still inside PrintError
    ELSE IF Len(r.leftover) = 0 THEN r.w
    ELSE IF Len(r.leftover) = Len(data)
    THEN \* nothing was consumed: the bytes are kept for the next call
         [r.w EXCEPT !.parentInBuffer = @ \o r.leftover]
    ELSE ParentInputDispatch(r.w, r.leftover)

ParentInputDispatch(w, data) == ParentInputRest(ParentInput(w, data), data)

\* mutant: the data is dispatched whether or not it ends inside an escape sequence
ParentInputLoop_NoAnsiCheck(w0, data0) ==
    LET data == w0.parentInBuffer \o data0
        w == [w0 EXCEPT !.parentInBuffer = <<>>]
    IN IF Len(data) = 0 THEN w
       ELSE ParentInputDispatch(w, data)

\* ShellState.ParentInputLoop
ParentInputLoop(w0, data0) ==
    LET data == w0.parentInBuffer \o data0
        w == [w0 EXCEPT !.parentInBuffer = <<>>]
    IN IF Len(data) = 0 THEN w
       ELSE IF incompleteAnsiSequence(data) THEN [w EXCEPT !.parentInBuffer = data]
       ELSE ParentInputDispatch(w, data)

(***************************************************************************)
(* Bounds of the assembler's inputs.                                       *)
(***************************************************************************)
MaxBlocks == 2
MaxContentLen == 2
MaxPromptTokens == 1
MaxHistoryBlockTokens == 1
MaxSlack == 7

AsmPrompts == {<<97, 98>>, <<97, 97>>}
AsmSysMsgs == {<<97>>}
AsmData == {<<>>, <<97>>}
\* budgets from the least one that can hold a system message upwards
AsmBudgets == {BaselineTokens + TokensPerMessage + k : k \in 0..MaxSlack}

\* what the parent terminal may type in a session, and how much the child prints
Scripts ==
    { <<108, 115, 13>>,           \* l s CR
      <<72, 105, 13>>,            \* H i CR
      <<72, 13, CtrlC, 108>>,     \* H CR ^C l
      <<72, 13, 108, 13>>,        \* H CR l CR
      <<72, 13, CtrlC, 72, 13>>,  \* H CR ^C H CR
      <<195, 169, 13>>,           \* e-acute in UTF-8, CR
      <<108, DEL, Tab, FormFeed>> }
MaxChildChunks == 1
\* the chunks of a session's child: chunk k is the digit of k
ChildChunks == [k \in 1..MaxChildChunks |-> <<48 + k>>]
SysMsgs == {SysMsgMissing, SysMsgShort, SysMsgLong}

VARIABLES
    History,     \* ShellState.History.Blocks
    ShellMaxHistoryBlockTokens,   \* Config.ShellMaxHistoryBlockTokens (-H), fixed for a session
    asmIn,       \* the arguments of the last assembleChat call
    asmOut,      \* what that call returned
    State,       \* ShellState.State
    Command,     \* ShellState.Command
    Prompt,      \* ShellState.Prompt
    parentInBuffer,        \* ShellState.parentInBuffer
    childOutBuffer,        \* Mux's local childOutBuffer
    PromptResponseCancel,  \* the call whose context the stored cancel func cancels, 0 for nil
    PrintErrorChan,        \* the errors queued on ShellState.PrintErrorChan
    ChildIn,     \* the bytes written to the child's stdin
    ParentOut,   \* the writes to the parent terminal
    calls,       \* the SendPrompt calls and their CompletionRoutines
    promptLibrary,  \* what PromptLibrary.GetPrompt(ShellSystemMessage) yields in this session
    script,      \* what the parent terminal types in this session
    parentIn,    \* the bytes of script the parent terminal has yet to deliver
    childOut,    \* the number of chunks the child has printed
    ChildOutReader,        \* the chunks the child has yet to print
    ShellLeavePromptAlone, \* Config.ShellLeavePromptAlone, fixed for a session
    PromptSuffixCounter,   \* ShellState.PromptSuffixCounter
    muxAlive,    \* Mux has not returned
    ctxDone,     \* Butterfish.Cancel() was called: Butterfish.Ctx is cancelled
    received,    \* history: the number of SendPrompt calls made when each child chunk arrived
    nCancel,     \* history: the number of Ctrl-C handled in PromptResponse
    nHandled,    \* history: the number of events each select case has handled
    buffer,      \* a ShellBuffer on its own
    written,     \* history: the bytes of the Write calls on buffer, in order
    slice,       \* a byte slice as ParentInputLoop tests it
    incomplete,  \* incompleteAnsiSequence(slice)
    TerminalWidth,   \* ShellState.TerminalWidth, as the number of resizes seen
    resizedDuring,   \* history: the calls whose routine was streaming when a SIGWINCH was handled
    CursorPosChan,   \* ShellState.CursorPosChan, capacity 128
    terminalReplies, \* the replies of the terminal the parent-input reader has not read yet
    getPos,          \* GetCursorPosition: where it stands, its pos variable, the number of the call
    positions,       \* history: what each call of GetCursorPosition returned
    loop             \* history: the last ParentInputLoop call and the ParentInput calls it made

asmVars == <<History, ShellMaxHistoryBlockTokens, asmIn, asmOut>>
muxVars == <<State, Command, Prompt, parentInBuffer, childOutBuffer, PromptResponseCancel,
             PrintErrorChan, ChildIn, ParentOut, calls, promptLibrary, script, parentIn, childOut,
             ChildOutReader, ShellLeavePromptAlone, PromptSuffixCounter, muxAlive,
             ctxDone, received, nCancel, nHandled>>
winchVars == <<TerminalWidth, resizedDuring>>
cursorVars == <<CursorPosChan, terminalReplies, getPos, positions>>
inputVars == <<loop>>
unitVars == <<buffer, written, slice, incomplete, winchVars, cursorVars, inputVars>>
vars == <<asmVars, muxVars, unitVars>>

NoAsmIn == [prompt |-> <<>>, sysMsg |-> <<>>, maxPromptTokens |-> 0, maxTokens |-> 0]
NoAsmOut == [called |-> FALSE, err |-> FALSE, prompt |-> <<>>, blocks |-> <<>>, hits |-> {}]
NoneHandled == [error |-> 0, result |-> 0, childOut |-> 0, parentIn |-> 0]

\* NewShellState and the locals of Mux, before the first event
MuxStart ==
    /\ State = stateNormal
    /\ Command = NewShellBuffer
    /\ Prompt = NewShellBuffer
    /\ parentInBuffer = <<>>
    /\ childOutBuffer = <<>>
    /\ PromptResponseCancel = 0
    /\ PrintErrorChan = <<>>
    /\ ChildIn = <<>>
    /\ ParentOut = <<>>
    /\ calls = <<>>
    /\ childOut = 0
    /\ PromptSuffixCounter = 0
    /\ muxAlive = TRUE
    /\ ctxDone = FALSE
    /\ received = <<>>
    /\ nCancel = 0
    /\ nHandled = NoneHandled

\* no ParentInputLoop call yet
NoLoop == [called |-> FALSE, data |-> <<>>, before |-> <<>>, dispatches |-> <<>>]

\* var pos *cursorPosition
NoPosition == [Row |-> 0, Column |-> 0, request |-> 0]

\* the buffer and the slice before anything is done with them
UnitStart ==
    /\ buffer = NewShellBuffer
    /\ written = <<>>
    /\ slice = <<>>
    /\ incomplete = FALSE
    /\ TerminalWidth = 0
    /\ resizedDuring = {}
    /\ CursorPosChan = <<>>
    /\ terminalReplies = <<>>
    /\ getPos = [pc |-> "idle", pos |-> NoPosition, call |-> 0]
    /\ positions = <<>>
    /\ loop = NoLoop

AsmInit ==
    /\ History = NewShellHistory
    /\ ShellMaxHistoryBlockTokens \in 1..MaxHistoryBlockTokens
    /\ asmIn = NoAsmIn
    /\ asmOut = NoAsmOut
    /\ MuxStart
    /\ ChildOutReader = <<>>
    /\ ShellLeavePromptAlone = FALSE
    /\ promptLibrary = SysMsgShort
    /\ script = <<>>
    /\ parentIn = <<>>
    /\ UnitStart

\* History.Append(historyType, data), within the bounds
AsmAppend ==
    \E historyType \in HistoryTypes, data \in AsmData :
       /\ IF Len(History) > 0 /\ History[Len(History)].Type = historyType
          THEN BufSize(History[Len(History)].Content) + Len(data) <= MaxContentLen
          ELSE Len(History) < MaxBlocks
       /\ History' = HistoryAppend(History, historyType, data)
       /\ asmIn' = NoAsmIn
       /\ asmOut' = NoAsmOut
       /\ UNCHANGED <<ShellMaxHistoryBlockTokens, muxVars, unitVars>>

\* the blocks of h a walk that returned n blocks took them from: the n newest it does
\* not skip; and those of them whose tokenization the cache held before the walk
NonSkipped(h) == {i \in 1..Len(h) : ~SkipsBlock(h[i])}
ReturnedFrom(h, n) == {i \in NonSkipped(h) : Cardinality({j \in NonSkipped(h) : j >= i}) <= n}
CacheHits(h, n) ==
    {i \in ReturnedFrom(h, n) : GetTokenization(h[i], BufSize(h[i].Content)).ok}

\* assembleChat(prompt, sysMsg, "", history, model, encoder, ...)
AsmAssemble ==
    \E prompt \in AsmPrompts, sm \in AsmSysMsgs,
       maxPromptTokens \in {MaxPromptTokens}, maxTokens \in AsmBudgets :
       LET r == assembleChat(prompt, sm, History, maxPromptTokens, ShellMaxHistoryBlockTokens, maxTokens)
       IN /\ ~asmOut.called
          /\ History' = r.history
          /\ asmIn' = [prompt |-> prompt, sysMsg |-> sm,
                       maxPromptTokens |-> maxPromptTokens, maxTokens |-> maxTokens]
          /\ asmOut' = [called |-> TRUE, err |-> r.err, prompt |-> r.prompt, blocks |-> r.blocks,
                        hits |-> CacheHits(History, Len(r.blocks))]
          /\ UNCHANGED <<ShellMaxHistoryBlockTokens, muxVars, unitVars>>

\* the caller is done with the result; the caches the walk filled stay
AsmReturn ==
    /\ asmOut.called
    /\ asmIn' = NoAsmIn
    /\ asmOut' = NoAsmOut
    /\ UNCHANGED <<History, ShellMaxHistoryBlockTokens, muxVars, unitVars>>

AsmNext == AsmAppend \/ AsmAssemble \/ AsmReturn

SpecAsm == AsmInit /\ [][AsmNext]_vars

\* the same with a block limit above one token, so that blocks differ in cost
WalkInit ==
    /\ History = NewShellHistory
    /\ ShellMaxHistoryBlockTokens = MaxHistoryBlockTokens + 1
    /\ asmIn = NoAsmIn
    /\ asmOut = NoAsmOut
    /\ MuxStart
    /\ ChildOutReader = <<>>
    /\ ShellLeavePromptAlone = FALSE
    /\ promptLibrary = SysMsgShort
    /\ script = <<>>
    /\ parentIn = <<>>
    /\ UnitStart

SpecWalk == WalkInit /\ [][AsmNext]_vars

(***************************************************************************)
(* A ShellBuffer on its own: Write calls on a new buffer, each with one of *)
(* a few strings: letters, backspaces, cursor moves, a colour sequence.    *)
(***************************************************************************)
MaxWrites == 4

CursorLeft == <<ESC, LBracket, 68>>
CursorLeftTwo == <<ESC, LBracket, 50, 68>>
CursorRight == <<ESC, LBracket, 67>>
Red == <<ESC, LBracket, 51, 49, 109>>
BufWrites ==
    {<<97>>, <<98, 99>>, <<Backspace>>, <<DEL>>, CursorLeft, CursorLeftTwo, CursorRight, Red}

BufInit == AsmInit /\ ShellMaxHistoryBlockTokens = MaxHistoryBlockTokens

\* buffer.Write(data)
BufferWrite ==
    \E data \in BufWrites :
       /\ Len(written) < MaxWrites
       /\ buffer' = BufWrite(buffer, data)
       /\ written' = Append(written, data)
       /\ UNCHANGED <<asmVars, muxVars, slice, incomplete, winchVars, inputVars, cursorVars>>

BufNext == BufferWrite

SpecBuf == BufInit /\ [][BufNext]_vars

(***************************************************************************)
(* The assembly with appends that edit a block: a letter, a backspace followed *)
(* by another letter, which leaves the size as it was, and a colour        *)
(* sequence, which has no width.                                           *)
(***************************************************************************)
MaxStringLen == 6
CacheData == {<<97>>, <<Backspace, 98>>, Red}

\* History.Append(historyType, data), within the bounds
CacheAppend ==
    \E historyType \in {historyTypePrompt, historyTypeLLMOutput}, data \in CacheData :
       /\ IF Len(History) > 0 /\ History[Len(History)].Type = historyType
          THEN /\ BufSize(History[Len(History)].Content) + 1 <= MaxContentLen
               /\ Len(BufString(History[Len(History)].Content)) + Len(data) <= MaxStringLen
          ELSE Len(History) < MaxBlocks
       /\ History' = HistoryAppend(History, historyType, data)
       /\ asmIn' = NoAsmIn
       /\ asmOut' = NoAsmOut
       /\ UNCHANGED <<ShellMaxHistoryBlockTokens, muxVars, unitVars>>

CacheNext == CacheAppend \/ AsmAssemble \/ AsmReturn

SpecCache == WalkInit /\ [][CacheNext]_vars

(***************************************************************************)
(* incompleteAnsiSequence on its own: a slice grows byte by byte, from     *)
(* text, ESC, '[', parameter bytes and a final byte, and is tested after   *)
(* each byte.                                                              *)
(***************************************************************************)
MaxSliceLen == 5

SliceBytes == {32, ESC, LBracket, 48, 59, 109}

AnsiInit == AsmInit /\ ShellMaxHistoryBlockTokens = MaxHistoryBlockTokens

SliceAppend ==
    \E b \in SliceBytes :
       /\ Len(slice) < MaxSliceLen
       /\ slice' = Append(slice, b)
       /\ incomplete' = incompleteAnsiSequence(slice')
       /\ UNCHANGED <<asmVars, muxVars, buffer, written, winchVars, cursorVars, inputVars>>

AnsiNext == SliceAppend

SpecAnsi == AnsiInit /\ [][AnsiNext]_vars

(***************************************************************************)
(* A session of the multiplexer: the select loop of Mux, one action per    *)
(* case, and the steps of the CompletionRoutine goroutines.  The cursor    *)
(* position and SIGWINCH cases touch none of the state below and are left  *)
(* out; the session's context is cancelled only where Mux returns.         *)
(***************************************************************************)
Init ==
    /\ History = NewShellHistory
    /\ ShellMaxHistoryBlockTokens = MaxHistoryBlockTokens
    /\ asmIn = NoAsmIn
    /\ asmOut = NoAsmOut
    /\ MuxStart
    /\ promptLibrary \in SysMsgs
    /\ script \in Scripts
    /\ parentIn = script
    /\ ChildOutReader = ChildChunks
    /\ ShellLeavePromptAlone = FALSE
    /\ UnitStart

\* what the handlers read and write, as one record
World ==
    [State |-> State, Command |-> Command, Prompt |-> Prompt,
     parentInBuffer |-> parentInBuffer, childOutBuffer |-> childOutBuffer,
     PromptResponseCancel |-> PromptResponseCancel, PrintErrorChan |-> PrintErrorChan,
     ChildIn |-> ChildIn, ParentOut |-> ParentOut, calls |-> calls, promptLibrary |-> promptLibrary,
     History |-> History, ShellMaxHistoryBlockTokens |-> ShellMaxHistoryBlockTokens,
     nCancel |-> nCancel]

InstallFields(w) ==
    /\ State' = w.State
    /\ Command' = w.Command
    /\ Prompt' = w.Prompt
    /\ parentInBuffer' = w.parentInBuffer
    /\ childOutBuffer' = w.childOutBuffer
    /\ PromptResponseCancel' = w.PromptResponseCancel
    /\ PrintErrorChan' = w.PrintErrorChan
    /\ ChildIn' = w.ChildIn
    /\ ParentOut' = w.ParentOut
    /\ calls' = w.calls
    /\ History' = w.History
    /\ nCancel' = w.nCancel
    /\ UNCHANGED <<promptLibrary, script, ShellLeavePromptAlone, ShellMaxHistoryBlockTokens,
                   asmIn, asmOut>>

Install(w) == InstallFields(w) /\ UNCHANGED unitVars

\* the select loop runs: Mux has not returned and is not parked in a send of its own
MuxRunning == muxAlive /\ Len(PrintErrorChan) <= PrintErrorChanCap

Handled(case) == nHandled' = [nHandled EXCEPT ![case] = @ + 1]

\* the routines that are still writing a response nobody cancelled
Writing(cs) == {id \in 1..Len(cs) : cs[id].pc = "streaming" /\ ~cs[id].cancelled}

\* ParentOut.Write of child output
WriteChildOut(w, data) ==
    [w EXCEPT !.ParentOut = Append(@, [src |-> "child", data |-> data, id |-> 0,
                                       writing |-> Writing(w.calls)])]

\* case parentInMsg := <-this.ParentInReader, a message of the next k bytes
MuxParentIn ==
    \E k \in 1..Len(parentIn) :
       /\ MuxRunning
       /\ Install(ParentInputLoop(World, TakeFirst(parentIn, k)))
       /\ parentIn' = DropFirst(parentIn, k)
       /\ Handled("parentIn")
       /\ UNCHANGED <<childOut, ChildOutReader, PromptSuffixCounter, muxAlive, ctxDone, received>>

\* case parentInMsg == nil: the parent terminal's reader closed
MuxParentInClosed ==
    /\ MuxRunning
    /\ parentIn = <<>>
    /\ ctxDone' = TRUE
    /\ muxAlive' = FALSE
    /\ UNCHANGED <<asmVars, unitVars, State, Command, Prompt, parentInBuffer, childOutBuffer,
                   PromptResponseCancel, PrintErrorChan, ChildIn, ParentOut, calls,
                   promptLibrary, script, parentIn, childOut, ChildOutReader,
                   ShellLeavePromptAlone, PromptSuffixCounter, received, nCancel, nHandled>>

\* the body of case childOutMsg := <-this.ChildOutReader; the chunks hold no PS1 marker
(***************************************************************************)
(* ParsePS1.  A regex is given by the literal it starts with: both regexes *)
(* are that literal, one or more digits, and PROMPT_SUFFIX.                *)
(***************************************************************************)
PROMPT_PREFIX == <<ESC, 81>>
PROMPT_SUFFIX == <<ESC, 82>>
EMOJI_DEFAULT == <<240, 159, 144, 160>>
ps1Regex == <<32>>
ps1FullRegex == EMOJI_DEFAULT \o <<32>>

HasAt(data, i, literal) ==
    /\ i + Len(literal) - 1 <= Len(data)
    /\ SubSeq(data, i, i + Len(literal) - 1) = literal

RECURSIVE SkipDigits(_, _)
SkipDigits(data, i) ==
    IF i <= Len(data) /\ IsDigit(data[i]) THEN SkipDigits(data, i + 1) ELSE i

\* the index after the digits of a match that starts at i, 0 if none starts there
MatchDigitsEnd(data, i, regex) ==
    IF ~HasAt(data, i, regex) THEN 0
    ELSE IF SkipDigits(data, i + Len(regex)) > i + Len(regex)
            /\ HasAt(data, SkipDigits(data, i + Len(regex)), PROMPT_SUFFIX)
    THEN SkipDigits(data, i + Len(regex))
    ELSE 0

\* regex.FindAllStringSubmatch(data, -1): leftmost matches that do not overlap
RECURSIVE FindAllSubmatch(_, _, _)
FindAllSubmatch(data, i, regex) ==
    IF i > Len(data) THEN <<>>
    ELSE IF MatchDigitsEnd(data, i, regex) = 0 THEN FindAllSubmatch(data, i + 1, regex)
    ELSE <<[from |-> i, to |-> MatchDigitsEnd(data, i, regex) + 1,
            digits |-> SubSeq(data, i + Len(regex), MatchDigitsEnd(data, i, regex) - 1)]>>
         \o FindAllSubmatch(data, MatchDigitsEnd(data, i, regex) + 2, regex)

\* regex.ReplaceAllString(data, currIcon), from index i on
RECURSIVE ReplaceAllMatches(_, _, _, _)
ReplaceAllMatches(data, i, matches, currIcon) ==
    IF matches = <<>> THEN DropFirst(data, i - 1)
    ELSE SubSeq(data, i, Head(matches).from - 1) \o currIcon
         \o ReplaceAllMatches(data, Head(matches).to + 1, Tail(matches), currIcon)

\* strings.ReplaceAll(data, literal, "")
RECURSIVE RemoveAll(_, _)
RemoveAll(data, literal) ==
    IF data = <<>> THEN <<>>
    ELSE IF HasAt(data, 1, literal) THEN RemoveAll(DropFirst(data, Len(literal)), literal)
    ELSE <<Head(data)>> \o RemoveAll(Tail(data), literal)

\* mutant: the prompts of a chunk count as one
ParsePS1Matches_CountsOne(data, matches, currIcon) ==
    IF matches = <<>> THEN [lastStatus |-> 0, prompts |-> 0, cleaned |-> data]
    ELSE [lastStatus |-> DigitsValue(matches[Len(matches)].digits, 0),
          prompts |-> 1,
          cleaned |-> RemoveAll(ReplaceAllMatches(data, 1, matches, currIcon), PROMPT_PREFIX)]

ParsePS1Matches(data, matches, currIcon) ==
    IF matches = <<>> THEN [lastStatus |-> 0, prompts |-> 0, cleaned |-> data]
    ELSE [lastStatus |-> DigitsValue(matches[Len(matches)].digits, 0),
          prompts |-> Len(matches),
          cleaned |-> RemoveAll(ReplaceAllMatches(data, 1, matches, currIcon), PROMPT_PREFIX)]

ParsePS1(data, regex, currIcon) ==
    ParsePS1Matches(data, FindAllSubmatch(data, 1, regex), currIcon)

\* ShellState.ParsePS1
ShellParsePS1(data) ==
    IF ShellLeavePromptAlone
    THEN ParsePS1(data, ps1Regex, <<>>)
    ELSE ParsePS1(data, ps1FullRegex, EMOJI_DEFAULT)

\* the child output case after ParsePS1
ForwardChildOut(w, childOutStr) ==
    IF w.State = statePromptResponse
    THEN [w EXCEPT !.childOutBuffer = @ \o childOutStr]
    ELSE WriteChildOut(
            IF w.State # stateShell
            THEN [w EXCEPT !.History = HistoryAppend(@, historyTypeShellOutput, childOutStr)]
            ELSE w,
            childOutStr)

ChildOutput(w, data) == ForwardChildOut(w, ShellParsePS1(data).cleaned)

\* the child prints its next chunk, the digit of its number
MuxChildOut ==
    /\ MuxRunning
    /\ ChildOutReader # <<>>
    /\ ChildOutReader' = Tail(ChildOutReader)
    /\ childOut' = childOut + 1
    /\ received' = Append(received, Len(calls))
    /\ PromptSuffixCounter' = PromptSuffixCounter + ShellParsePS1(Head(ChildOutReader)).prompts
    /\ Install(ChildOutput(World, Head(ChildOutReader)))
    /\ Handled("childOut")
    /\ UNCHANGED <<parentIn, muxAlive, ctxDone>>

\* mutant: the closure of the child's stream cancels the context and the loop goes on
MuxChildOutClosed_LoopGoesOn ==
    /\ MuxRunning
    /\ ctxDone' = TRUE
    /\ UNCHANGED <<asmVars, unitVars, State, Command, Prompt, parentInBuffer, childOutBuffer,
                   PromptResponseCancel, PrintErrorChan, ChildIn, ParentOut, calls,
                   promptLibrary, script, parentIn, childOut, ChildOutReader,
                   ShellLeavePromptAlone, PromptSuffixCounter, muxAlive, received, nCancel,
                   nHandled>>

\* case childOutMsg == nil: the child exited
MuxChildOutClosed ==
    /\ MuxRunning
    /\ ctxDone' = TRUE
    /\ muxAlive' = FALSE
    /\ UNCHANGED <<asmVars, unitVars, State, Command, Prompt, parentInBuffer, childOutBuffer,
                   PromptResponseCancel, PrintErrorChan, ChildIn, ParentOut, calls,
                   promptLibrary, script, parentIn, childOut, ChildOutReader,
                   ShellLeavePromptAlone, PromptSuffixCounter, received, nCancel, nHandled>>

\* the body of case err := <-this.PrintErrorChan
ErrorEvent(w) ==
    LET err == Head(w.PrintErrorChan) IN
    [w EXCEPT !.PrintErrorChan = Tail(@),
              !.History = HistoryAppend(@, historyTypeShellOutput, err),
              !.ParentOut = Append(@, [src |-> "error", data |-> err, id |-> 0, writing |-> {}]),
              !.State = stateNormal,
              !.ChildIn = @ \o <<10>>]

MuxPrintError ==
    /\ MuxRunning
    /\ PrintErrorChan # <<>>
    /\ Install(ErrorEvent(World))
    /\ Handled("error")
    /\ UNCHANGED <<parentIn, childOut, ChildOutReader, PromptSuffixCounter, muxAlive, ctxDone,
                    received>>

\* mutant: the result leaves the buffered input where it is
ReplayBufferedInput_Never(w) == w

\* this.ParentInputLoop([]byte{}) of the result's handler
ReplayBufferedInput(w) == ParentInputLoop(w, <<>>)

\* the body of case output := <-this.PromptOutputChan, for the result of call id
\* the write of the buffered child output; the entry records the call whose result wrote it
WriteChildOutBuffer(w, id) ==
    [w EXCEPT !.ParentOut = Append(@, [src |-> "child", data |-> w.childOutBuffer, id |-> id,
                                       writing |-> Writing(w.calls)])]

\* mutant: the buffered child output goes to the history before the completion
PromptOutput_FlushFirst(w0, id) ==
    LET historyData == w0.calls[id].completion
        w1 == IF Len(w0.childOutBuffer) > 0
              THEN [WriteChildOutBuffer(w0, id) EXCEPT
                       !.History = HistoryAppend(@, historyTypeShellOutput, w0.childOutBuffer),
                       !.childOutBuffer = <<>>]
              ELSE w0
        w2 == IF historyData # <<>>
              THEN [w1 EXCEPT !.History = HistoryAppend(@, historyTypeLLMOutput, historyData)]
              ELSE w1
        w3 == [w2 EXCEPT !.ChildIn = @ \o <<10>>, !.State = stateNormal]
    IN ReplayBufferedInput(w3)

PromptOutput(w0, id) ==
    LET historyData == w0.calls[id].completion
        w1 == IF historyData # <<>>
              THEN [w0 EXCEPT !.History = HistoryAppend(@, historyTypeLLMOutput, historyData)]
              ELSE w0
        w2 == IF Len(w1.childOutBuffer) > 0
              THEN [WriteChildOutBuffer(w1, id) EXCEPT
                       !.History = HistoryAppend(@, historyTypeShellOutput, w1.childOutBuffer),
                       !.childOutBuffer = <<>>]
              ELSE w1
        w3 == [w2 EXCEPT !.ChildIn = @ \o <<10>>, !.State = stateNormal]
    IN ReplayBufferedInput(w3)

\* the channel is unbuffered: the routine's send and Mux's receive are one step
MuxPromptOutput ==
    \E id \in 1..Len(calls) :
       /\ MuxRunning
       /\ calls[id].pc = "send"
       /\ Install(PromptOutput([World EXCEPT !.calls[id].pc = "done"], id))
       /\ Handled("result")
       /\ UNCHANGED <<parentIn, childOut, ChildOutReader, PromptSuffixCounter, muxAlive, ctxDone,
                    received>>

(***************************************************************************)
(* CompletionRoutine.  client.CompletionStream writes the tokens of the    *)
(* response to the parent terminal and ends with a response or an error;   *)
(* a cancelled context stops it when it next looks.                        *)
(***************************************************************************)
DriverToken ==
    \E id \in 1..Len(calls) :
       /\ calls[id].pc = "streaming"
       /\ calls[id].tokens < calls[id].request.MaxTokens
       /\ calls' = [calls EXCEPT ![id].tokens = @ + 1]
       /\ ParentOut' = Append(ParentOut, [src |-> "llm", data |-> TokenText, id |-> id,
                                          writing |-> {}])
       /\ UNCHANGED <<asmVars, unitVars, State, Command, Prompt, parentInBuffer, childOutBuffer,
                      PromptResponseCancel, PrintErrorChan, ChildIn, promptLibrary,
                      script, parentIn, childOut, ChildOutReader, ShellLeavePromptAlone,
                      PromptSuffixCounter, muxAlive, ctxDone, received, nCancel, nHandled>>

StreamOutcomes(c) == {"response", "error"} \cup (IF c.cancelled THEN {"canceled"} ELSE {})

\* the text of the response the stream returned
Streamed(c) == Flatten([i \in 1..c.tokens |-> TokenText])

\* mutant: the routine writes the error also when the context was cancelled
DriverStreamEnd_WritesCanceled ==
    \E id \in 1..Len(calls) : \E outcome \in StreamOutcomes(calls[id]) :
       /\ calls[id].pc = "streaming"
       /\ calls' = [calls EXCEPT
             ![id].pc = "send",
             ![id].completion = CASE outcome = "response" -> Streamed(calls[id])
                                  [] outcome = "error" -> LLMErrorText
                                  [] outcome = "canceled" -> CanceledText]
       /\ ParentOut' = IF outcome \in {"error", "canceled"}
                       THEN Append(ParentOut, [src |-> "error", data |-> calls'[id].completion,
                                               id |-> id, writing |-> {}])
                       ELSE ParentOut
       /\ UNCHANGED <<asmVars, unitVars, State, Command, Prompt, parentInBuffer, childOutBuffer,
                      PromptResponseCancel, PrintErrorChan, ChildIn, promptLibrary,
                      script, parentIn, childOut, ChildOutReader, ShellLeavePromptAlone,
                      PromptSuffixCounter, muxAlive, ctxDone, received, nCancel, nHandled>>

\* output, err := client.CompletionStream(...) returns; the routine goes on to its send
DriverStreamEnd ==
    \E id \in 1..Len(calls) : \E outcome \in StreamOutcomes(calls[id]) :
       /\ calls[id].pc = "streaming"
       /\ calls' = [calls EXCEPT
             ![id].pc = "send",
             ![id].completion = CASE outcome = "response" -> Streamed(calls[id])
                                  [] outcome = "error" -> LLMErrorText
                                  [] outcome = "canceled" -> CanceledText]
       /\ ParentOut' = IF outcome = "error"
                       THEN Append(ParentOut, [src |-> "error", data |-> LLMErrorText, id |-> id,
                                               writing |-> {}])
                       ELSE ParentOut
       /\ UNCHANGED <<asmVars, unitVars, State, Command, Prompt, parentInBuffer, childOutBuffer,
                      PromptResponseCancel, PrintErrorChan, ChildIn, promptLibrary,
                      script, parentIn, childOut, ChildOutReader, ShellLeavePromptAlone,
                      PromptSuffixCounter, muxAlive, ctxDone, received, nCancel, nHandled>>

Next ==
    \/ MuxParentIn
    \/ MuxParentInClosed
    \/ MuxChildOut
    \/ MuxChildOutClosed
    \/ MuxPrintError
    \/ MuxPromptOutput
    \/ DriverToken
    \/ DriverStreamEnd

Spec == Init /\ [][Next]_vars

(***************************************************************************)
(* A session in which the terminal is resized: the SIGWINCH case of the    *)
(* select loop sets the width of the prompt buffer, of the command buffer  *)
(* and of the style writer, the writer the routines write their responses  *)
(* through.                                                                *)
(***************************************************************************)
MaxResizes == 1

WinchScripts == { <<72, 13>>, <<72, 13, CtrlC>> }     \* H CR; H CR ^C

\* the routines inside client.CompletionStream(request, writer)
Streaming(cs) == {id \in 1..Len(cs) : cs[id].pc = "streaming"}

WinchInit ==
    /\ History = NewShellHistory
    /\ ShellMaxHistoryBlockTokens = MaxHistoryBlockTokens
    /\ asmIn = NoAsmIn
    /\ asmOut = NoAsmOut
    /\ MuxStart
    /\ promptLibrary \in {SysMsgShort, SysMsgMissing}
    /\ script \in WinchScripts
    /\ parentIn = script
    /\ ChildOutReader = ChildChunks
    /\ ShellLeavePromptAlone = FALSE
    /\ UnitStart

\* case <-this.Sigwinch
MuxSigwinch ==
    /\ MuxRunning
    /\ TerminalWidth < MaxResizes
    /\ TerminalWidth' = TerminalWidth + 1
    /\ resizedDuring' = resizedDuring \cup Streaming(calls)
    /\ UNCHANGED <<asmVars, muxVars, buffer, written, slice, incomplete, cursorVars, inputVars>>

WinchNext == Next \/ MuxSigwinch

SpecWinch == WinchInit /\ [][WinchNext]_vars

(***************************************************************************)
(* Cursor positions.  The terminal answers every CSI 6n it is sent, those  *)
(* of the child as well as those of GetCursorPosition, with CSI row;col R  *)
(* on the parent input; the parent-input reader takes the replies out of   *)
(* the input and sends them on CursorPosChan.  A reply carries, as history,*)
(* the request it answers: the number of the GetCursorPosition call, or 0  *)
(* for a request of the child.                                             *)
(***************************************************************************)
MaxPositionCalls == 2
MaxChildRequests == 2
CursorPosChanCap == 128
ESC_CUP == <<ESC, LBracket, 54, 110>>               \* ESC [ 6 n

\* the requests the terminal has been sent so far
ChildRequests == Cardinality({i \in 1..Len(ParentOut) : ParentOut[i].src = "childRequest"})
RequestsSent == ChildRequests + getPos.call

\* the terminal's reply to its next request
TerminalReply(request) == [Row |-> 1, Column |-> RequestsSent + 1, request |-> request]

CursorInit == AsmInit /\ ShellMaxHistoryBlockTokens = MaxHistoryBlockTokens

\* the child asks for the cursor position: its CSI 6n is forwarded to the terminal
ChildRequestsPosition ==
    /\ getPos.pc # "panic"
    /\ ChildRequests < MaxChildRequests
    /\ ParentOut' = Append(ParentOut, [src |-> "childRequest", data |-> ESC_CUP, id |-> 0, writing |-> {}])
    /\ terminalReplies' = Append(terminalReplies, TerminalReply(0))
    /\ UNCHANGED <<asmVars, State, Command, Prompt,
                   parentInBuffer, childOutBuffer, PromptResponseCancel, PrintErrorChan, ChildIn,
                   calls, promptLibrary, script, parentIn, childOut, ChildOutReader,
                   ShellLeavePromptAlone, PromptSuffixCounter, muxAlive, ctxDone, received,
                   nCancel, nHandled, buffer, written, slice, incomplete, winchVars, inputVars,
                   CursorPosChan, getPos, positions>>

\* readerToChannelWithPosition: a reply read from the parent input goes to the channel
ReaderPosition ==
    /\ getPos.pc # "panic"
    /\ terminalReplies # <<>>
    /\ Len(CursorPosChan) < CursorPosChanCap
    /\ CursorPosChan' = Append(CursorPosChan, Head(terminalReplies))
    /\ terminalReplies' = Tail(terminalReplies)
    /\ UNCHANGED <<asmVars, muxVars, buffer, written, slice, incomplete, winchVars, inputVars, getPos, positions>>

\* fmt.Fprintf(this.ChildIn, "\x1b[%d;%dR", pos.Row, pos.Column)
PositionReport(pos) == <<ESC, LBracket, 48 + pos.Row, 59, 48 + pos.Column, 82>>

\* case pos := <-this.CursorPosChan, in the select loop
MuxCursorPos ==
    /\ getPos.pc = "idle"
    /\ CursorPosChan # <<>>
    /\ ChildIn' = ChildIn \o PositionReport(Head(CursorPosChan))
    /\ CursorPosChan' = Tail(CursorPosChan)
    /\ UNCHANGED <<asmVars, State, Command, Prompt,
                   parentInBuffer, childOutBuffer, PromptResponseCancel, PrintErrorChan, ParentOut,
                   calls, promptLibrary, script, parentIn, childOut, ChildOutReader,
                   ShellLeavePromptAlone, PromptSuffixCounter, muxAlive, ctxDone, received,
                   nCancel, nHandled, buffer, written, slice, incomplete, winchVars, inputVars,
                   terminalReplies, getPos, positions>>

\* GetCursorPosition: this.ParentOut.Write([]byte(ESC_CUP))
GetCursorPositionRequest ==
    /\ getPos.pc = "idle"
    /\ getPos.call < MaxPositionCalls
    /\ ParentOut' = Append(ParentOut, [src |-> "cursor", data |-> ESC_CUP, id |-> 0, writing |-> {}])
    /\ terminalReplies' = Append(terminalReplies, TerminalReply(getPos.call + 1))
    /\ getPos' = [pc |-> "wait", pos |-> NoPosition, call |-> getPos.call + 1]
    /\ UNCHANGED <<asmVars, State, Command, Prompt,
                   parentInBuffer, childOutBuffer, PromptResponseCancel, PrintErrorChan, ChildIn,
                   calls, promptLibrary, script, parentIn, childOut, ChildOutReader,
                   ShellLeavePromptAlone, PromptSuffixCounter, muxAlive, ctxDone, received,
                   nCancel, nHandled, buffer, written, slice, incomplete, winchVars, inputVars,
                   CursorPosChan, positions>>

\* GetCursorPosition: case pos = <-this.CursorPosChan, of the first select and of the loop
GetCursorPositionReceive ==
    /\ getPos.pc \in {"wait", "drain"}
    /\ CursorPosChan # <<>>
    /\ getPos' = [getPos EXCEPT !.pc = "drain", !.pos = Head(CursorPosChan)]
    /\ CursorPosChan' = Tail(CursorPosChan)
    /\ UNCHANGED <<asmVars, muxVars, buffer, written, slice, incomplete, winchVars, inputVars,
                   terminalReplies, positions>>

\* GetCursorPosition: case <-timeout, no reply within five seconds
GetCursorPositionTimeout ==
    /\ getPos.pc = "wait"
    /\ CursorPosChan = <<>>
    /\ getPos' = [getPos EXCEPT !.pc = "panic"]
    /\ UNCHANGED <<asmVars, muxVars, buffer, written, slice, incomplete, winchVars, inputVars,
                   CursorPosChan, terminalReplies, positions>>

\* GetCursorPosition: default: return pos.Row, pos.Column
GetCursorPositionReturn ==
    /\ getPos.pc = "drain"
    /\ CursorPosChan = <<>>
    /\ positions' = Append(positions, getPos.pos)
    /\ getPos' = [getPos EXCEPT !.pc = "idle"]
    /\ UNCHANGED <<asmVars, muxVars, buffer, written, slice, incomplete, winchVars, inputVars,
                   CursorPosChan, terminalReplies>>

CursorNext ==
    \/ ChildRequestsPosition
    \/ ReaderPosition
    \/ MuxCursorPos
    \/ GetCursorPositionRequest
    \/ GetCursorPositionReceive
    \/ GetCursorPositionTimeout
    \/ GetCursorPositionReturn

SpecCursor == CursorInit /\ [][CursorNext]_vars

(***************************************************************************)
(* The parent-input loop on its own: the select loop takes the messages of *)
(* the parent terminal, which types a line with an edit, with an arrow     *)
(* key, with text after a CR, or a prompt; every ParentInputLoop call is   *)
(* recorded with the ParentInput calls it makes.                           *)
(***************************************************************************)
InputScripts ==
    { <<108, 115, 13, 108>>,        \* l s CR l
      <<13, 108, 13>>,              \* CR l CR
      <<DEL, 108, Tab>>,            \* DEL l tab
      <<108, DEL, 108, 13>>,        \* l DEL l CR
      <<ESC, LBracket, 65, 108>>,   \* arrow up, l
      <<72, 13, 108, CtrlC>>,       \* H CR l ^C
      <<72, 13, ESC, LBracket>>,    \* H CR and the start of an arrow key
      <<FormFeed, 108, Tab, 13>> }  \* ^L l tab CR

\* the ParentInput calls of the for loop of ParentInputLoop: the state each found,
\* its data, and the state and the leftover it returned
RECURSIVE DispatchTrace(_, _)
DispatchesAfter(w, data, r) ==
    <<[w |-> w, data |-> data, r |-> r]>>
    \o (IF Len(r.leftover) = 0 \/ Len(r.leftover) = Len(data) THEN <<>>
        ELSE DispatchTrace(r.w, r.leftover))
DispatchTrace(w, data) == DispatchesAfter(w, data, ParentInput(w, data))

\* the ParentInput calls of ParentInputLoop(data0)
LoopTrace(w0, data0) ==
    IF Len(w0.parentInBuffer \o data0) = 0 \/ incompleteAnsiSequence(w0.parentInBuffer \o data0)
    THEN <<>>
    ELSE DispatchTrace([w0 EXCEPT !.parentInBuffer = <<>>], w0.parentInBuffer \o data0)

InputInit ==
    /\ History = NewShellHistory
    /\ ShellMaxHistoryBlockTokens = MaxHistoryBlockTokens
    /\ asmIn = NoAsmIn
    /\ asmOut = NoAsmOut
    /\ MuxStart
    /\ promptLibrary = SysMsgShort
    /\ script \in InputScripts
    /\ parentIn = script
    /\ ChildOutReader = <<>>
    /\ ShellLeavePromptAlone = FALSE
    /\ UnitStart

\* case parentInMsg := <-this.ParentInReader, a message of the next k bytes
InputParentIn ==
    \E k \in 1..Len(parentIn) :
       /\ MuxRunning
       /\ InstallFields(ParentInputLoop(World, TakeFirst(parentIn, k)))
       /\ loop' = [called |-> TRUE, data |-> TakeFirst(parentIn, k), before |-> World,
                   dispatches |-> LoopTrace(World, TakeFirst(parentIn, k))]
       /\ parentIn' = DropFirst(parentIn, k)
       /\ Handled("parentIn")
       /\ UNCHANGED <<childOut, ChildOutReader, PromptSuffixCounter, muxAlive, ctxDone, received,
                      buffer, written, slice, incomplete, winchVars, cursorVars>>

InputNext == InputParentIn

SpecInput == InputInit /\ [][InputNext]_vars

(***************************************************************************)
(* A session whose prompts all fail: the prompt library has no system      *)
(* message or one too long for the budget; the parent terminal sends a     *)
(* prompt and a Ctrl-C, again and again, each in a message of its own, and *)
(* the select loop takes the input and the errors in any order.            *)
(***************************************************************************)
FailingPrompt == <<72, 13, CtrlC>>      \* H CR ^C
ErrScript == Flatten([i \in 1..(PrintErrorChanCap + 1) |-> FailingPrompt])

ErrInit ==
    /\ History = NewShellHistory
    /\ ShellMaxHistoryBlockTokens = MaxHistoryBlockTokens
    /\ asmIn = NoAsmIn
    /\ asmOut = NoAsmOut
    /\ MuxStart
    /\ promptLibrary \in {SysMsgMissing, SysMsgLong}
    /\ script = ErrScript
    /\ parentIn = script
    /\ ChildOutReader = <<>>
    /\ ShellLeavePromptAlone = FALSE
    /\ UnitStart

\* case parentInMsg := <-this.ParentInReader, a message of the next prompt
ErrParentIn ==
    /\ MuxRunning
    /\ Len(parentIn) >= Len(FailingPrompt)
    /\ Install(ParentInputLoop(World, TakeFirst(parentIn, Len(FailingPrompt))))
    /\ parentIn' = DropFirst(parentIn, Len(FailingPrompt))
    /\ Handled("parentIn")
    /\ UNCHANGED <<childOut, ChildOutReader, PromptSuffixCounter, muxAlive, ctxDone, received>>

ErrNext == ErrParentIn \/ MuxPrintError

SpecErr == ErrInit /\ [][ErrNext]_vars

(***************************************************************************)
(* A session whose child prints shell prompts: the chunks hold the PS1     *)
(* sentinels, whole, split, with and without the icon, and arrive in each  *)
(* state of the multiplexer.                                               *)
(***************************************************************************)
PS1Scripts == { <<72, 13>>, <<108>> }     \* H CR; l

PS1Chunks ==
    { PROMPT_PREFIX \o <<36>> \o EMOJI_DEFAULT \o <<32, 48>> \o PROMPT_SUFFIX \o <<32>>,
      PROMPT_PREFIX \o <<36>>,
      <<32, 55>> \o PROMPT_SUFFIX,
      EMOJI_DEFAULT \o <<32, 49>> \o PROMPT_SUFFIX
         \o EMOJI_DEFAULT \o <<32, 49, 50>> \o PROMPT_SUFFIX,
      <<49>> }

PS1Init ==
    /\ History = NewShellHistory
    /\ ShellMaxHistoryBlockTokens = MaxHistoryBlockTokens
    /\ asmIn = NoAsmIn
    /\ asmOut = NoAsmOut
    /\ MuxStart
    /\ promptLibrary \in {SysMsgShort, SysMsgMissing}
    /\ script \in PS1Scripts
    /\ parentIn = script
    /\ ChildOutReader \in [1..MaxChildChunks -> PS1Chunks]
    /\ ShellLeavePromptAlone \in BOOLEAN
    /\ UnitStart

SpecPS1 == PS1Init /\ [][Next]_vars

(***************************************************************************)
(* C1: no block returned by assembleChat / getHistoryBlocksByTokens has    *)
(* kind ShellOutput, for every history built by Append calls and every     *)
(* budget.                                                                 *)
(***************************************************************************)
C1_NoShellOutputInRequest ==
    asmOut.called =>
        \A i \in 1..Len(asmOut.blocks) : asmOut.blocks[i].Type # historyTypeShellOutput

\* an assembly that walked over a non-empty shell-output block to an older block it returned
C1_Witness ==
    /\ asmOut.called /\ ~asmOut.err
    /\ Len(asmOut.blocks) >= 1
    /\ Len(History) >= 2
    /\ History[Len(History)].Type = historyTypeShellOutput
    /\ BufSize(History[Len(History)].Content) > 0

(***************************************************************************)
(* C2: when assembleChat returns without error, 3 + tokens(returned        *)
(* prompt) + tokens(system message) + tokensPerMessage + the sum over the  *)
(* returned blocks of (tokensPerMessage + tokens(role) + tokens(content))  *)
(* is at most maxCombinedTokens.                                           *)
(***************************************************************************)
RequestBlockTokens(b) ==
    TokensPerMessage + Len(EncodeRole(ShellHistoryTypeToRole(b.Type))) + Len(Encode(b.Content))

RequestTokens(prompt, sysMsg, blocks) ==
    BaselineTokens + Len(Encode(prompt)) + Len(Encode(sysMsg)) + TokensPerMessage
    + SumSeq([i \in 1..Len(blocks) |-> RequestBlockTokens(blocks[i])])

C2_WithinCombinedBudget ==
    (asmOut.called /\ ~asmOut.err) =>
        RequestTokens(asmOut.prompt, asmIn.sysMsg, asmOut.blocks) <= asmIn.maxTokens

\* a request that fills its budget exactly, with a truncated prompt and a history block
C2_Witness ==
    /\ asmOut.called /\ ~asmOut.err
    /\ asmOut.prompt # asmIn.prompt
    /\ Len(asmOut.blocks) >= 1
    /\ Len(asmOut.blocks) < Len(History)
    /\ RequestTokens(asmOut.prompt, asmIn.sysMsg, asmOut.blocks) = asmIn.maxTokens

(***************************************************************************)
(* C3: every call of SendPrompt results in exactly one value received on   *)
(* PromptOutputChan, also when the request is cancelled and when its       *)
(* construction fails.  As stated: once no routine has a value left to     *)
(* send, the results received number the SendPrompt calls.                 *)
(***************************************************************************)
InFlight(id) == calls[id].pc \in {"streaming", "send"}

CallsAt(pc) == {id \in 1..Len(calls) : calls[id].pc = pc}

C4_LeavesOnlyOnItsResult ==
    [][(State = statePromptResponse /\ State' # statePromptResponse) =>
          /\ Len(calls) > 0
          /\ calls[Len(calls)].pc = "send"
          /\ calls'[Len(calls)].pc = "done"]_vars

\* C4 as the code has it: a step that leaves PromptResponse handles a
\* completion-result (of any call), a Ctrl-C at either end of the parent
\* input, or an error from the error channel; child output, other parent
\* input and the routines' own steps leave the state alone.
C4_LeavesOnResultCancelOrError ==
    [][(State = statePromptResponse /\ State' # statePromptResponse) =>
          \/ nHandled'.result > nHandled.result
          \/ nCancel' > nCancel
          \/ nHandled'.error > nHandled.error]_vars

\* PromptResponse was left on Ctrl-C while the routine still streams and no result was handled
C4_Witness ==
    /\ Len(calls) = 1
    /\ calls[1].pc = "streaming"
    /\ nCancel = 1
    /\ nHandled.result = 0
    /\ nHandled.error = 0
    /\ State # statePromptResponse

(***************************************************************************)
(* C5: no child output received after a SendPrompt is written to the       *)
(* parent terminal before the routine of that SendPrompt has finished      *)
(* writing its response: every chunk written while a routine still writes  *)
(* a response nobody cancelled was received before that routine's          *)
(* SendPrompt.                                                             *)
(***************************************************************************)
\* the number of the chunk that holds digit b
ChunkOf(b) == b - 48

C5_ChildOutputWaitsForResponse ==
    \A i \in 1..Len(ParentOut) :
       ParentOut[i].src = "child" =>
          \A j \in 1..Len(ParentOut[i].data) : \A id \in ParentOut[i].writing :
             received[ChunkOf(ParentOut[i].data[j])] < id

Delivered == TakeFirst(parentIn, Len(parentIn) - Len(parentIn'))

BlocksOf(historyType) == SelectSeq(History, LAMBDA b : b.Type = historyType)

C7_PlainCommandPassthrough ==
    (script = <<108, 115, 13>> /\ parentIn = <<>>) =>
       /\ ChildIn = <<108, 115, 13>>
       /\ Len(BlocksOf(historyTypeShellInput)) = 1
       /\ BufString(BlocksOf(historyTypeShellInput)[1].Content) = <<108, 115>>
       /\ State = stateNormal

(***************************************************************************)
(* C8: uppercase triggers prompting.  From Normal, once the line "Hi" and  *)
(* its CR are delivered, however split, SendPrompt was called once with    *)
(* the line as the prompt text, history gained a prompt block with that    *)
(* text, and the state is PromptResponse until a result, a Ctrl-C or an    *)
(* error ends the wait.                                                    *)
(***************************************************************************)
C8_UppercaseTriggersPrompting ==
    (script = <<72, 105, 13>> /\ parentIn = <<>> /\ promptLibrary = SysMsgShort) =>
       /\ Len(calls) = 1
       /\ calls[1].request.Prompt = <<72, 105>>
       /\ Len(BlocksOf(historyTypePrompt)) = 1
       /\ BufString(BlocksOf(historyTypePrompt)[1].Content) = <<72, 105>>
       /\ nHandled.result = 0 => State = statePromptResponse

(***************************************************************************)
(* C9: Ctrl-C cancels streaming.  The later arrival of the cancelled       *)
(* request's completion-result causes no further state transition: with    *)
(* no parent input kept for replay, the state after the result of a        *)
(* cancelled call is handled is the state before.                          *)
(***************************************************************************)
C9_CancelledResultKeepsState ==
    [][\A id \in 1..Len(calls) :
          (calls[id].cancelled /\ calls[id].pc = "send" /\ calls'[id].pc = "done"
             /\ parentInBuffer = <<>>)
          => State' = State]_vars

(***************************************************************************)
(* C10: from Normal, the multiplexer enters Prompting if and only if the   *)
(* first byte of the input being dispatched is an uppercase ASCII letter   *)
(* (0x41-0x5A); bytes from 0x80 up are handled as shell input.             *)
(***************************************************************************)
Bytes == 0..255

C10_PromptingIffAsciiCapital ==
    State = stateNormal =>
       \A b \in Bytes :
          (ParentInput(World, <<b>>).w.State = statePrompting) <=> (b >= 65 /\ b <= 90)

(***************************************************************************)
(* C11: after any sequence of ShellHistory.Append calls no two adjacent    *)
(* blocks have the same kind; an Append of the last block's kind writes    *)
(* the data to that block and adds none, an Append of another kind adds    *)
(* exactly one block at the end, and an Append of empty data changes       *)
(* nothing.                                                                *)
(***************************************************************************)
Kinds(h) == [i \in 1..Len(h) |-> h[i].Type]

C11_AppendKeepsKindsApart ==
    /\ \A i \in 1..(Len(History) - 1) : History[i].Type # History[i + 1].Type
    /\ \A historyType \in HistoryTypes, data \in AsmData :
          LET h == HistoryAppend(History, historyType, data) IN
          IF data = <<>> THEN h = History
          ELSE IF Len(History) > 0 /\ History[Len(History)].Type = historyType
          THEN /\ Kinds(h) = Kinds(History)
               /\ SubSeq(h, 1, Len(h) - 1) = SubSeq(History, 1, Len(History) - 1)
               /\ BufString(h[Len(h)].Content)
                     = BufString(History[Len(History)].Content) \o data
          ELSE /\ Len(h) = Len(History) + 1
               /\ SubSeq(h, 1, Len(History)) = History
               /\ h[Len(h)].Type = historyType
               /\ BufString(h[Len(h)].Content) = data

\* two blocks, the last of them written by two Append calls of its kind
C11_Witness ==
    /\ Len(History) = 2
    /\ BufSize(History[2].Content) = 2
    /\ ~asmOut.called

(***************************************************************************)
(* C12: for every sequence of ShellBuffer.Write calls that holds only      *)
(* printable bytes and backspaces (0x08, 0x7f), String() is what the same  *)
(* bytes make of an empty byte vector when a printable byte appends and a  *)
(* backspace removes the last byte, if there is one.  The bytes of         *)
(* TestShellBuffer ("l", backspace, "ls ") give "ls ".                     *)
(***************************************************************************)
IsBackspace(b) == b \in {Backspace, DEL}

IsPrintableByte(b) == b >= 32 /\ b <= 126

RECURSIVE NaiveBackspace(_, _)
NaiveBackspace(vector, bytes) ==
    IF bytes = <<>> THEN vector
    ELSE IF IsBackspace(Head(bytes))
    THEN NaiveBackspace(IF vector = <<>> THEN vector ELSE TakeFirst(vector, Len(vector) - 1),
                        Tail(bytes))
    ELSE NaiveBackspace(Append(vector, Head(bytes)), Tail(bytes))

WrittenBytes == Flatten(written)

C12_StringIsNaiveBackspace ==
    /\ (\A i \in 1..Len(WrittenBytes) :
           IsPrintableByte(WrittenBytes[i]) \/ IsBackspace(WrittenBytes[i]))
          => BufString(buffer) = NaiveBackspace(<<>>, WrittenBytes)
    /\ BufString(BufWrite(NewShellBuffer, <<108, Backspace, 108, 115, 32>>)) = <<108, 115, 32>>

\* a backspace on the empty buffer, then letters, then a backspace that removes one
C12_Witness ==
    /\ written = <<<<Backspace>>, <<97>>, <<98, 99>>, <<DEL>>>>
    /\ BufString(buffer) = <<97, 98>>

(***************************************************************************)
(* C13: cursor editing in a ShellBuffer.  A cursor-left sequence moves the *)
(* cursor left by its count, never below 0; a printable byte written after *)
(* that is inserted at the cursor, a backspace deletes the byte left of    *)
(* the cursor, and the bytes right of the cursor stay as they are: String()*)
(* is what an independent replay with a byte vector and a position gives.  *)
(* A cursor move alone never changes String().  "hello world", five        *)
(* cursor-lefts, "foo   ", 0x08 0x7f give "hello foo world".               *)
(***************************************************************************)
CursorMoves == {CursorLeft, CursorLeftTwo, CursorRight}

NewEdit == [vector |-> <<>>, pos |-> 0]

EditByte(e, b) ==
    IF IsBackspace(b)
    THEN IF e.pos = 0 THEN e
         ELSE [vector |-> TakeFirst(e.vector, e.pos - 1) \o DropFirst(e.vector, e.pos),
               pos |-> e.pos - 1]
    ELSE [vector |-> TakeFirst(e.vector, e.pos) \o <<b>> \o DropFirst(e.vector, e.pos),
          pos |-> e.pos + 1]

RECURSIVE EditBytes(_, _)
EditBytes(e, bytes) ==
    IF bytes = <<>> THEN e ELSE EditBytes(EditByte(e, Head(bytes)), Tail(bytes))

EditWrite(e, data) ==
    IF data = CursorLeft THEN [e EXCEPT !.pos = Max(0, e.pos - 1)]
    ELSE IF data = CursorLeftTwo THEN [e EXCEPT !.pos = Max(0, e.pos - 2)]
    ELSE IF data = CursorRight THEN [e EXCEPT !.pos = Min(Len(e.vector), e.pos + 1)]
    ELSE EditBytes(e, data)

RECURSIVE EditReplay(_, _)
EditReplay(e, writes) ==
    IF writes = <<>> THEN e ELSE EditReplay(EditWrite(e, Head(writes)), Tail(writes))

RECURSIVE BufWriteAll(_, _)
BufWriteAll(sb, writes) ==
    IF writes = <<>> THEN sb ELSE BufWriteAll(BufWrite(sb, Head(writes)), Tail(writes))

HelloWorld == <<104, 101, 108, 108, 111, 32, 119, 111, 114, 108, 100>>
FooSpaces == <<102, 111, 111, 32, 32, 32>>
HelloFooWorld == <<104, 101, 108, 108, 111, 32, 102, 111, 111, 32, 119, 111, 114, 108, 100>>

\* TestShellBuffer, "left cursor, backspace, and then insertion"
LeftCursorTest ==
    BufString(BufWriteAll(NewShellBuffer,
        <<HelloWorld, CursorLeft \o CursorLeft \o CursorLeft \o CursorLeft \o CursorLeft,
          FooSpaces, <<Backspace, DEL>>>>))

\* TestShellBuffer, "hello world!" followed by a cursor move
CursorMoveTest ==
    BufString(BufWriteAll(NewShellBuffer, <<HelloWorld, <<33>>, CursorLeft>>))

C13_CursorEditing ==
    /\ (\A i \in 1..Len(written) : written[i] # Red)
          => BufString(buffer) = EditReplay(NewEdit, written).vector
    /\ \A move \in CursorMoves : BufString(BufWrite(buffer, move)) = BufString(buffer)
    /\ LeftCursorTest = HelloFooWorld
    /\ CursorMoveTest = HelloWorld \o <<33>>

\* "bc", one left, a backspace that deletes the "b", then "a" inserted before the "c"
C13_Witness ==
    /\ written = <<<<98, 99>>, CursorLeft, <<DEL>>, <<97>>>>
    /\ BufString(buffer) = <<97, 99>>

(***************************************************************************)
(* C14: incompleteAnsiSequence is true exactly when the slice ends inside  *)
(* an unfinished CSI sequence: a left-to-right scan is, at the end, just   *)
(* after an ESC, or after ESC '[' and parameter bytes only.  A final byte  *)
(* appended to such a slice makes the result false (after a bare ESC the   *)
(* byte '[' opens the sequence and is no final byte).  The four slices of  *)
(* TestIncompleteAnsiSequence give true, true, false, false.               *)
(***************************************************************************)
ScanByte(mode, b) ==
    IF b = ESC THEN "esc"
    ELSE IF mode = "esc" /\ b = LBracket THEN "csi"
    ELSE IF mode = "csi" /\ IsParamByte(b) THEN "csi"
    ELSE "text"

RECURSIVE ScanFrom(_, _)
ScanFrom(mode, bytes) ==
    IF bytes = <<>> THEN mode ELSE ScanFrom(ScanByte(mode, Head(bytes)), Tail(bytes))

EndsMidCSI(bytes) == ScanFrom("text", bytes) \in {"esc", "csi"}

FinalBytes == {64, 68, LBracket, 109, 126}

IncompleteTestA == <<ESC, LBracket, 48, 59>>
IncompleteTestB == <<32, ESC, LBracket, 48, 59>>
CompleteTestA == <<ESC, LBracket, 48, 59, 49, 59, 50, 109, ESC, LBracket, 48, 109>>
CompleteTestB == <<32, 32>> \o CompleteTestA

IncompleteTests ==
    <<incompleteAnsiSequence(IncompleteTestA), incompleteAnsiSequence(IncompleteTestB),
      incompleteAnsiSequence(CompleteTestA), incompleteAnsiSequence(CompleteTestB)>>

SentinelStart == IF ShellLeavePromptAlone THEN <<32>> ELSE EMOJI_DEFAULT \o <<32>>

\* the digits of data that end just before index e
RECURSIVE DigitsBefore(_, _)
DigitsBefore(data, e) ==
    IF e > 1 /\ IsDigit(data[e - 1]) THEN Append(DigitsBefore(data, e - 1), data[e - 1])
    ELSE <<>>

SentinelEnds(data, start) ==
    {e \in 1..(Len(data) - 1) :
        /\ data[e] = ESC /\ data[e + 1] = 82
        /\ DigitsBefore(data, e) # <<>>
        /\ e - Len(DigitsBefore(data, e)) - Len(start) >= 1
        /\ HasAt(data, e - Len(DigitsBefore(data, e)) - Len(start), start)}

RECURSIVE Decimal(_)
Decimal(digits) ==
    IF digits = <<>> THEN 0
    ELSE 10 * Decimal(TakeFirst(digits, Len(digits) - 1)) + (digits[Len(digits)] - 48)

LastSentinelStatus(data, ends) ==
    IF ends = {} THEN 0
    ELSE Decimal(DigitsBefore(data, CHOOSE e \in ends : \A f \in ends : f <= e))

ChunkParsedAsCounted(chunk, parsed, ends) ==
    /\ parsed.prompts = Cardinality(ends)
    /\ parsed.lastStatus = LastSentinelStatus(chunk, ends)
    /\ PromptSuffixCounter' = PromptSuffixCounter + Cardinality(ends)

C15_CounterAddsPrompts ==
    [][childOut' = childOut + 1 =>
          ChunkParsedAsCounted(Head(ChildOutReader), ShellParsePS1(Head(ChildOutReader)),
                               SentinelEnds(Head(ChildOutReader), SentinelStart))]_vars

\* a chunk with two prompts arrived in PromptResponse and was buffered
C15_Witness ==
    /\ PromptSuffixCounter = 2
    /\ childOutBuffer # <<>>
    /\ State = statePromptResponse

(***************************************************************************)
(* C16: every chunk of child output written to the parent terminal has     *)
(* both sentinel forms removed: it holds no ESC Q and no trailing sentinel *)
(* (space, digits, ESC R), also when the chunk held an ESC Q and no        *)
(* complete trailing sentinel.                                             *)
(***************************************************************************)
HasLiteral(data, literal) == \E i \in 1..Len(data) : HasAt(data, i, literal)

C16_ForwardedChunksStripped ==
    \A i \in 1..Len(ParentOut) :
       ParentOut[i].src = "child" =>
          /\ ~HasLiteral(ParentOut[i].data, PROMPT_PREFIX)
          /\ SentinelEnds(ParentOut[i].data, <<32>>) = {}

(***************************************************************************)
(* C17: an in-flight completion is cancelled when the session's context is *)
(* cancelled: once Butterfish.Cancel() was called (also on the closure of  *)
(* the child's or the parent's stream), every request whose routine is     *)
(* still streaming has had its own context cancelled.                      *)
(***************************************************************************)
C17_ContextCancelsRequest ==
    ctxDone => \A id \in 1..Len(calls) : calls[id].pc = "streaming" => calls[id].cancelled

(***************************************************************************)
(* C18: when the child-output or the parent-input channel delivers its     *)
(* closure marker, the multiplexer cancels the session's context and its   *)
(* select loop ends, in whatever state it was: the step changes nothing    *)
(* else, and from then on no event is handled and nothing the multiplexer *)
(* owns changes, whatever is still pending.                                *)
(***************************************************************************)
MuxOwned ==
    <<State, Command, Prompt, parentInBuffer, childOutBuffer, PromptResponseCancel,
      PrintErrorChan, ChildIn, History, PromptSuffixCounter, nHandled, nCancel,
      parentIn, ChildOutReader>>

C18_ClosureEndsMux ==
    [][/\ (~ctxDone /\ ctxDone') => (muxAlive /\ ~muxAlive' /\ UNCHANGED MuxOwned)
       /\ (muxAlive /\ ~muxAlive') => ctxDone'
       /\ ~muxAlive => (~muxAlive' /\ UNCHANGED MuxOwned)]_vars

\* the loop has ended in PromptResponse with a result and a child chunk waiting
C18_Witness ==
    /\ ~muxAlive
    /\ ctxDone
    /\ State = statePromptResponse
    /\ ChildOutReader # <<>>
    /\ \E id \in 1..Len(calls) : calls[id].pc = "send"

(***************************************************************************)
(* C19: the handler of a completion-result appends the completion to the   *)
(* history as LLMOutput if and only if it is not empty, then writes the    *)
(* child output buffered during the response to the parent and appends it  *)
(* to the history as ShellOutput and empties the buffer, then writes one   *)
(* newline to the child and sets the state to Normal.  So the LLMOutput of *)
(* a response comes before the ShellOutput buffered during it.  Stated for *)
(* the results that find no parent input kept for replay.                  *)
(***************************************************************************)
ResultOf(cs, cs2) == CHOOSE id \in 1..Len(cs) : cs[id].pc = "send" /\ cs2[id].pc = "done"

WithCompletion(h, completion) ==
    IF completion # <<>> THEN HistoryAppend(h, historyTypeLLMOutput, completion) ELSE h

WithBuffered(h, buffered) ==
    IF buffered # <<>> THEN HistoryAppend(h, historyTypeShellOutput, buffered) ELSE h

ResultHandledInOrder(completion, id) ==
    /\ History' = WithBuffered(WithCompletion(History, completion), childOutBuffer)
    /\ (completion # <<>> /\ childOutBuffer # <<>>) =>
          /\ History'[Len(History') - 1].Type = historyTypeLLMOutput
          /\ History'[Len(History')].Type = historyTypeShellOutput
          /\ BufString(History'[Len(History')].Content) = childOutBuffer
    /\ (completion = <<>>) =>
          Cardinality({i \in 1..Len(History') : History'[i].Type = historyTypeLLMOutput})
             = Cardinality({i \in 1..Len(History) : History[i].Type = historyTypeLLMOutput})
    /\ childOutBuffer' = <<>>
    /\ IF childOutBuffer # <<>>
       THEN /\ Len(ParentOut') = Len(ParentOut) + 1
            /\ ParentOut'[Len(ParentOut')].src = "child"
            /\ ParentOut'[Len(ParentOut')].data = childOutBuffer
       ELSE ParentOut' = ParentOut
    /\ ChildIn' = ChildIn \o <<10>>
    /\ State' = stateNormal

C19_ResultHandledInOrder ==
    [][(nHandled'.result = nHandled.result + 1 /\ parentInBuffer = <<>>) =>
          ResultHandledInOrder(calls[ResultOf(calls, calls')].completion,
                               ResultOf(calls, calls'))]_vars

\* a result has flushed the chunk buffered during its response, after its completion
C19_Witness ==
    /\ State = stateNormal
    /\ childOutBuffer = <<>>
    /\ Len(History) >= 2
    /\ History[Len(History) - 1].Type = historyTypeLLMOutput
    /\ History[Len(History)].Type = historyTypeShellOutput
    /\ ParentOut # <<>>
    /\ ParentOut[Len(ParentOut)].src = "child"
    /\ ParentOut[Len(ParentOut)].id > 0
    /\ ChildIn # <<>> /\ ChildIn[Len(ChildIn)] = 10

(***************************************************************************)
(* C20: if the 3 baseline tokens, the prompt as truncated, the system      *)
(* message and its per-message overhead exceed maxCombinedTokens, then     *)
(* assembleChat fails and SendPrompt starts no completion routine, sends   *)
(* no request and appends no Prompt block to the history; the error is     *)
(* queued on the error channel, and handling it returns the state to       *)
(* Normal.  Stated for the steps that make one SendPrompt call with a      *)
(* system message at hand and handle no input after it; a call that does   *)
(* start a routine was within the budget.                                  *)
(***************************************************************************)
ExceedsCombined(promptStr, sysMsg) ==
    BaselineTokens + Min(Len(Encode(promptStr)), AssembleMaxPromptTokens)
       + Len(Encode(sysMsg)) + TokensPerMessage
    > PromptMaxTokens - ShellMaxResponseTokens

\* the text of the Prompt blocks of a history
PromptBlocks(h) ==
    Flatten([i \in 1..Len(h) |->
                IF h[i].Type = historyTypePrompt THEN BufString(h[i].Content) ELSE <<>>])

SendPromptWithinBudget(call) ==
    IF call.pc = "failed"
    THEN /\ ExceedsCombined(BufString(Prompt'), promptLibrary)
         /\ call.request = NoRoutine.request
         /\ call.tokens = 0
         /\ PromptBlocks(History') = PromptBlocks(History)
         /\ PrintErrorChan' = Append(PrintErrorChan, ErrorText)
    ELSE /\ ~ExceedsCombined(call.request.Prompt, promptLibrary)
         /\ PromptBlocks(History') # PromptBlocks(History)
         /\ PrintErrorChan' = PrintErrorChan

C20_OverBudgetSendsNothing ==
    [][/\ (/\ Len(calls') = Len(calls) + 1
           /\ State' = statePromptResponse
           /\ promptLibrary # SysMsgMissing) => SendPromptWithinBudget(calls'[Len(calls')])
       /\ \A id \in 1..Len(calls) :
             calls[id].pc = "failed" => (calls'[id].pc = "failed" /\ calls'[id].tokens = 0)
       /\ (nHandled'.error = nHandled.error + 1) => State' = stateNormal]_vars

\* the prompt "Hii" with the long system message: nothing was sent, the error was handled
C20_Witness ==
    /\ promptLibrary = SysMsgLong
    /\ Len(calls) = 1
    /\ calls[1].pc = "failed"
    /\ PromptBlocks(History) = <<>>
    /\ BufString(Prompt) = <<72, 105, 105>>
    /\ nHandled.error = 1
    /\ PrintErrorChan = <<>>
    /\ State = stateNormal
    /\ \A i \in 1..Len(ParentOut) : ParentOut[i].src # "llm"

(***************************************************************************)
(* C21: when the stream of a request ends with an error, the routine       *)
(* writes the error message to the parent terminal, unless the message     *)
(* holds "context canceled", for which it writes nothing; the handler of   *)
(* the result appends the error string to the history as LLMOutput and     *)
(* sets the state to Normal.  The second part is stated for the results    *)
(* that find no parent input kept for replay.                              *)
(***************************************************************************)
LLMOutputText(h) ==
    Flatten([i \in 1..Len(h) |->
                IF h[i].Type = historyTypeLLMOutput THEN BufString(h[i].Content) ELSE <<>>])

StreamEnded(cs, cs2) ==
    {id \in 1..Len(cs) : cs[id].pc = "streaming" /\ cs2[id].pc = "send"}

ErrorStreamEnd(id) ==
    /\ calls'[id].completion = LLMErrorText =>
          ParentOut' = Append(ParentOut, [src |-> "error", data |-> LLMErrorText, id |-> id,
                                          writing |-> {}])
    /\ calls'[id].completion = CanceledText => ParentOut' = ParentOut

ErrorResultHandled(completion) ==
    completion \in {LLMErrorText, CanceledText} =>
       /\ LLMOutputText(History') = LLMOutputText(History) \o completion
       /\ History'[Len(History') - (IF childOutBuffer # <<>> THEN 1 ELSE 0)].Type
             = historyTypeLLMOutput
       /\ State' = stateNormal

C22_ErrorsOnlyFromErrorChannel ==
    \A i \in 1..Len(ParentOut) : ParentOut[i].src = "error" => ParentOut[i].id = 0

(***************************************************************************)
(* C23: the history is the only object the multiplexer and a completion    *)
(* routine access at the same time; in particular the select loop never    *)
(* sets the width of the style writer (SIGWINCH) while a routine is        *)
(* writing its response through it.                                        *)
(***************************************************************************)
C23_StyleWriterNotShared == resizedDuring = {}

(***************************************************************************)
(* C24: GetCursorPosition returns with the position channel empty, and     *)
(* the position it returns is the terminal's reply to the request of this  *)
(* call, not a reply that was queued before the request was issued.        *)
(***************************************************************************)
C24_ReturnsReplyToItsRequest ==
    \A i \in 1..Len(positions) : positions[i].request = i

(***************************************************************************)
(* C25: for every completion request the multiplexer sends, the tokens     *)
(* assembleChat accounts for the prompt side (baseline, prompt, system     *)
(* message, history blocks and their per-message overheads) plus the       *)
(* request's MaxTokens are at most min(model context size, the maximum     *)
(* prompt tokens of the configuration).                                    *)
(***************************************************************************)
Sent(cs) == {id \in 1..Len(cs) : cs[id].pc # "failed"}

RequestTotal(request) ==
    RequestTokens(request.Prompt, request.SystemMessage, request.HistoryBlocks)
    + request.MaxTokens

C25_RequestWithinContext ==
    \A id \in Sent(calls) :
       RequestTotal(calls[id].request) <= Min(NumTokensForModel, ShellMaxPromptTokens)

\* a second request that fills the context exactly: the history of the first prompt
\* is left out of it for want of room
C25_Witness ==
    /\ Len(calls) = 2
    /\ Sent(calls) = {1, 2}
    /\ calls[2].request.MaxTokens = ShellMaxResponseTokens
    /\ calls[2].request.HistoryBlocks = <<>>
    /\ RequestTotal(calls[2].request) = Min(NumTokensForModel, ShellMaxPromptTokens)

(***************************************************************************)
(* C26: every history block an assembly returns has content of at most     *)
(* maxHistoryBlockTokens tokens, whether the tokenization was computed in  *)
(* this assembly or served from the block's cache.                         *)
(***************************************************************************)
C26_BlocksWithinBlockLimit ==
    (asmOut.called /\ ~asmOut.err) =>
        \A i \in 1..Len(asmOut.blocks) :
           Len(Encode(asmOut.blocks[i].Content)) <= ShellMaxHistoryBlockTokens

\* a returned block served from the cache, whose cached content is the truncated one
C26_Witness ==
    /\ asmOut.called /\ ~asmOut.err
    /\ \E i \in asmOut.hits :
          /\ History[i].Tokenization.Data # BufString(History[i].Content)
          /\ \E k \in 1..Len(asmOut.blocks) :
                asmOut.blocks[k].Content = History[i].Tokenization.Data
          /\ History[i].Tokenization.NumTokens = ShellMaxHistoryBlockTokens

(***************************************************************************)
(* C27: in Normal, a ParentInput call whose data starts with none of       *)
(* Ctrl-C, Ctrl-L, an uppercase letter, tab or CR always sets the state to *)
(* Shell, with a new command buffer holding the data, and consumes all of  *)
(* the data.                                                               *)
(***************************************************************************)
IsRegularByte(b) == b \notin {CtrlC, FormFeed, Tab, CR} /\ ~IsUpper(b)

\* the ParentInput calls of the last ParentInputLoop call that found Normal and a
\* regular first byte
RegularDispatches ==
    {i \in 1..Len(loop.dispatches) :
        /\ loop.dispatches[i].w.State = stateNormal
        /\ IsRegularByte(loop.dispatches[i].data[1])}

StartsCommand(d) ==
    /\ d.r.w.Command = BufWrite(NewShellBuffer, d.data)
    /\ d.r.w.ChildIn = d.w.ChildIn \o d.data
    /\ d.r.leftover = <<>>

C27_RegularByteStartsShell ==
    \A i \in RegularDispatches :
       /\ StartsCommand(loop.dispatches[i])
       /\ loop.dispatches[i].r.w.State = stateShell

\* C27 as the code has it: the state becomes Shell only when the new command buffer
\* is not empty after the data is written to it; data that leaves it empty (a
\* backspace, an arrow key) is forwarded and consumed all the same and the state
\* stays Normal.
C27_RegularByteStartsShellIfTyped ==
    \A i \in RegularDispatches :
       /\ StartsCommand(loop.dispatches[i])
       /\ loop.dispatches[i].r.w.State =
             IF BufSize(BufWrite(NewShellBuffer, loop.dispatches[i].data)) > 0
             THEN stateShell ELSE stateNormal

\* an arrow key and a letter came in separate messages: the first left the state
\* Normal, the second set it to Shell
C27_Witness ==
    /\ script = <<ESC, LBracket, 65, 108>>
    /\ parentIn = <<>>
    /\ ChildIn = script
    /\ loop.data = <<108>>
    /\ loop.before.State = stateNormal
    /\ RegularDispatches = {1}
    /\ State = stateShell

(***************************************************************************)
(* C28: in Shell, a ParentInput call whose data contains a CR forwards the *)
(* bytes up to and including the first CR to the child, appends to the     *)
(* history, as ShellInput, the whole command as forwarded to the child     *)
(* (the command buffer with the bytes that precede the CR in this data),   *)
(* resets the command buffer, sets the state to Normal and returns the     *)
(* bytes after the CR.                                                     *)
(***************************************************************************)
\* the ParentInput calls of the last ParentInputLoop call that found Shell and a CR
CommandDispatches ==
    {i \in 1..Len(loop.dispatches) :
        /\ loop.dispatches[i].w.State = stateShell
        /\ Contains(loop.dispatches[i].data, CR)}

\* the command of the call d: what the buffer held and what came before the CR
WholeCommand(d) == BufString(BufWrite(d.w.Command, TakeFirst(d.data, IndexOf(d.data, CR) - 1)))

C28_CommandEntered ==
    \A i \in CommandDispatches :
       LET d == loop.dispatches[i] IN
       /\ d.r.w.ChildIn = d.w.ChildIn \o TakeFirst(d.data, IndexOf(d.data, CR))
       /\ d.r.w.History = HistoryAppend(d.w.History, historyTypeShellInput, WholeCommand(d))
       /\ d.r.w.Command = NewShellBuffer
       /\ d.r.w.State = stateNormal
       /\ d.r.leftover = DropFirst(d.data, IndexOf(d.data, CR))

(***************************************************************************)
(* C29: while the multiplexer is in Normal or Shell and no uppercase       *)
(* letter starts a prompt, every parent-input byte forwarded to the child  *)
(* is forwarded once and in order: what was written to the child's stdin   *)
(* is the input dispatched so far (a CR received in Normal is forwarded    *)
(* as it is and the bytes after it in the same input are not written       *)
(* twice).  Stated for the sessions whose input has no uppercase letter    *)
(* and no Ctrl-L, the one byte Normal answers without forwarding it.       *)
(***************************************************************************)
AllForwarded(input) ==
    \A i \in 1..Len(input) : ~IsUpper(input[i]) /\ input[i] # FormFeed

\* the input the parent-input loop has dispatched: what was delivered, less what it keeps
DispatchedInput ==
    TakeFirst(script, Len(script) - Len(parentIn) - Len(parentInBuffer))

C29_ForwardedOnceInOrder ==
    AllForwarded(script) => ChildIn = DispatchedInput

(***************************************************************************)
(* C30: when ParentInputLoop is called and the cached bytes followed by    *)
(* the new bytes end inside a CSI sequence, all of them are stored in the  *)
(* parent-input buffer and nothing is dispatched: the state, the history,  *)
(* the command and prompt buffers are unchanged and nothing is written to  *)
(* the child or the parent.  Otherwise the cached bytes are dispatched     *)
(* ahead of the new bytes and the buffer is left empty unless the state is *)
(* PromptResponse.                                                         *)
(***************************************************************************)
\* the cached bytes and the new bytes of the last ParentInputLoop call
LoopInput == loop.before.parentInBuffer \o loop.data

NothingDispatched ==
    /\ loop.dispatches = <<>>
    /\ State = loop.before.State
    /\ History = loop.before.History
    /\ Command = loop.before.Command
    /\ Prompt = loop.before.Prompt
    /\ ChildIn = loop.before.ChildIn
    /\ ParentOut = loop.before.ParentOut

CacheDispatchedFirst ==
    /\ Len(loop.dispatches) >= 1
    /\ loop.dispatches[1].data = LoopInput
    /\ loop.dispatches[1].w.parentInBuffer = <<>>
    /\ parentInBuffer = <<>> \/ State = statePromptResponse

C30_MidSequenceInputIsKept ==
    loop.called =>
       IF EndsMidCSI(LoopInput)
       THEN parentInBuffer = LoopInput /\ NothingDispatched
       ELSE CacheDispatchedFirst

\* the arrow key came in three messages: the first two were kept, the third
\* completed the sequence and all of it went to the child at once
C30_Witness ==
    /\ loop.called
    /\ loop.before.parentInBuffer = <<ESC, LBracket>>
    /\ loop.before.ChildIn = <<>>
    /\ nHandled.parentIn = 3
    /\ loop.data = <<65>>
    /\ Len(loop.dispatches) = 1
    /\ ChildIn = <<ESC, LBracket, 65>>
    /\ parentInBuffer = <<>>

(***************************************************************************)
(* C31: the blocks getHistoryBlocksByTokens returns are, oldest first, the *)
(* newest consecutive run of eligible blocks (not ShellOutput, not empty)  *)
(* that fits the budget: the walk goes from the newest block to the        *)
(* oldest, stops at the first eligible block whose cost exceeds what is    *)
(* left, and includes no block older than one it rejected.                 *)
(***************************************************************************)
\* what the walk was given: the budget less the prompt side of the request
WalkBudget ==
    asmIn.maxTokens
    - (BaselineTokens + Len(Encode(asmOut.prompt)) + Len(Encode(asmIn.sysMsg)) + TokensPerMessage)

\* the cost of block i, from the tokenization the walk left in its cache
BlockCost(i) ==
    TokensPerMessage + Len(EncodeRole(ShellHistoryTypeToRole(History[i].Type)))
    + History[i].Tokenization.NumTokens

\* the k-th oldest of the blocks in the set run
KthOf(run, k) == CHOOSE i \in run : Cardinality({j \in run : j <= i}) = k

\* the newest eligible block that is older than all of run, or 0
NextOlder(run) ==
    LET older == {j \in NonSkipped(History) : \A i \in run : j < i} IN
    IF older = {} THEN 0 ELSE CHOOSE j \in older : \A o \in older : o <= j

RunCost(run) == SumSeq([k \in 1..Cardinality(run) |-> BlockCost(KthOf(run, k))])

NewestRunThatFits(blocks, run) ==
    /\ Cardinality(run) = Len(blocks)
    /\ \A k \in 1..Len(blocks) :
          /\ blocks[k].Type = History[KthOf(run, k)].Type
          /\ blocks[k].Content = History[KthOf(run, k)].Tokenization.Data
    /\ RunCost(run) <= WalkBudget
    /\ NextOlder(run) # 0 => RunCost(run) + BlockCost(NextOlder(run)) > WalkBudget

C32_NeverParkedInPrintError == Len(PrintErrorChan) <= PrintErrorChanCap

(***************************************************************************)
(* C33: a block's cached tokenization is used if and only if its recorded  *)
(* input length equals the current Size() of the block's content, and      *)
(* whenever it is used the cached text and token count are what            *)
(* recomputing from the block's current content would give, after any      *)
(* Append calls between assemblies, those that add only zero-width bytes   *)
(* or leave Size() unchanged included.                                     *)
(***************************************************************************)
\* the tokenization of the block's current content, computed anew
Recomputed(block) ==
    BlockTokenization([block EXCEPT !.Tokenization = NoTokenization], ShellMaxHistoryBlockTokens)

C33_CacheHitsAreCurrent ==
    (asmOut.called /\ ~asmOut.err) =>
        \A i \in asmOut.hits :
           /\ History[i].Tokenization.InputLength = BufSize(History[i].Content)
           /\ History[i].Tokenization.Data = Recomputed(History[i]).content
           /\ History[i].Tokenization.NumTokens = Recomputed(History[i]).contentTokens

(***************************************************************************)
(* C34: the completion routine's single send of its result never blocks    *)
(* it: a routine whose stream has ended terminates, also when the          *)
(* multiplexer has left its select loop.  In the form of a state: no       *)
(* routine stands at its send after the multiplexer returned, where no     *)
(* receiver is left for it.                                                *)
(***************************************************************************)
C34_SendFindsReceiver ==
    \A id \in 1..Len(calls) : calls[id].pc = "send" => muxAlive

(***************************************************************************)
(* C35: at most one completion routine is in flight at any time:           *)
(* SendPrompt is never executed while a routine started by an earlier      *)
(* SendPrompt has not yet had its result received by the multiplexer.      *)
(***************************************************************************)
C35_OneRoutineInFlight ==
    Cardinality({id \in 1..Len(calls) : InFlight(id)}) <= 1

(***************************************************************************)
(* C36: child output reaches the parent terminal in the order the child    *)
(* produced it and is never held back indefinitely, also when              *)
(* PromptResponse is left by Ctrl-C or by an error: what was written of    *)
(* it is a prefix of what was received, and once the multiplexer has       *)
(* nothing left to handle and no routine in flight, all of it was written. *)
(***************************************************************************)
\* the cleaned child output the multiplexer received so far
ChildReceived == Flatten([k \in 1..childOut |-> ShellParsePS1(ChildChunks[k]).cleaned])

\* the child output written to the parent terminal so far
ChildWritten ==
    LET entries == SelectSeq(ParentOut, LAMBDA e : e.src = "child")
    IN Flatten([i \in 1..Len(entries) |-> entries[i].data])

\* the select loop runs and none of its cases will ever be ready again
Quiescent ==
    /\ muxAlive
    /\ parentIn = <<>>
    /\ ChildOutReader = <<>>
    /\ PrintErrorChan = <<>>
    /\ \A id \in 1..Len(calls) : ~InFlight(id)

C36_ChildOutputInOrder ==
    /\ Len(ChildWritten) <= Len(ChildReceived)
    /\ ChildWritten = TakeFirst(ChildReceived, Len(ChildWritten))
    /\ Quiescent => ChildWritten = ChildReceived

(***************************************************************************)
(* C37: no byte of a prompt line is ever written to the child's stdin:     *)
(* while the state is Prompting the only writes to the child are forwarded *)
(* cursor-position replies.  Every ParentInput call that finds the state   *)
(* Prompting leaves ChildIn as it was, and so does every other case of the *)
(* select loop taken in Prompting, but the cursor-position case.           *)
(***************************************************************************)
\* the ParentInput calls of the message the step handled leave ChildIn alone in Prompting
PromptingCallsKeepChildIn(message) ==
    LET trace == LoopTrace(World, message) IN
    \A i \in 1..Len(trace) :
       trace[i].w.State = statePrompting => trace[i].r.w.ChildIn = trace[i].w.ChildIn

C37_PromptLineNotToChild ==
    [][IF parentIn' # parentIn
       THEN PromptingCallsKeepChildIn(TakeFirst(parentIn, Len(parentIn) - Len(parentIn')))
       ELSE (State = statePrompting /\ CursorPosChan' = CursorPosChan) => ChildIn' = ChildIn]_vars

(***************************************************************************)
(* C38: the request of SendPrompt, the returned prompt and the returned    *)
(* history blocks, is independent of the content of ShellOutput blocks:    *)
(* two histories with the same sequence of block kinds that agree on       *)
(* every block but the ShellOutput ones give the same request for the same *)
(* prompt, system message and budgets.                                     *)
(***************************************************************************)
\* what the shell may have printed in place of a ShellOutput block's content
ShellOutputs == {<<98>>, <<98, 97>>, Red \o <<97, 98>>}

\* the histories that differ from h in the content of ShellOutput blocks at most
SameButShellOutput(h) ==
    LET shellOutput == {i \in 1..Len(h) : h[i].Type = historyTypeShellOutput}
    IN {[i \in 1..Len(h) |->
            IF i \in shellOutput
            THEN [h[i] EXCEPT !.Content = BufWrite(NewShellBuffer, printed[i])]
            ELSE h[i]] : printed \in [shellOutput -> ShellOutputs]}

C38_ShellOutputNotInRequest ==
    [][(asmOut'.called /\ ~asmOut.called) =>
          \A h2 \in SameButShellOutput(History) :
             LET r2 == assembleChat(asmIn'.prompt, asmIn'.sysMsg, h2, asmIn'.maxPromptTokens,
                                    ShellMaxHistoryBlockTokens, asmIn'.maxTokens)
             IN /\ r2.err = asmOut'.err
                /\ r2.prompt = asmOut'.prompt
                /\ r2.blocks = asmOut'.blocks]_vars

\* a request with a block of the history in it, assembled over a ShellOutput block
C38_Witness ==
    /\ asmOut.called
    /\ ~asmOut.err
    /\ Len(asmOut.blocks) > 0
    /\ \E i \in 1..Len(History) :
          History[i].Type = historyTypeShellOutput /\ BufSize(History[i].Content) > 0

(***************************************************************************)
(* C39: ParentInputLoop always terminates: every ParentInput call either   *)
(* consumes at least one byte of its input or returns it unchanged, the    *)
(* latter in PromptResponse only, and then the loop stores the bytes in    *)
(* the parent-input buffer and stops; and the call of the loop returns,    *)
(* that is, the step that handles a message does not end inside a call     *)
(* that waits.                                                             *)
(***************************************************************************)
\* call i of the loop's trace consumed a byte, or is the last one, made in
\* PromptResponse, whose bytes the loop stored
ConsumesOrStops(trace, i, stored) ==
    \/ Len(trace[i].r.leftover) < Len(trace[i].data)
    \/ /\ trace[i].r.leftover = trace[i].data
       /\ trace[i].w.State = statePromptResponse
       /\ i = Len(trace)
       /\ stored = trace[i].data

C39_ParentInputLoopTerminates ==
    [][parentIn' # parentIn =>
          /\ Len(PrintErrorChan') <= PrintErrorChanCap
          /\ \A i \in 1..Len(loop'.dispatches) :
                ConsumesOrStops(loop'.dispatches, i, parentInBuffer')]_vars

=============================================================================
